---- MODULE Spec2Model ----
(***************************************************************************)
(* A model of tnn/convrnn.py: the convolutional recurrent cells, the       *)
(* Linear Transform (_conv_linear) and the tnn_*Cell node wrappers.        *)
(*                                                                         *)
(* Tensors are modelled by their static shape and a tag for where their    *)
(* values come from.  The TensorFlow variable store is a set of            *)
(* (name, shape) entries; names are scope paths.  Python exceptions are    *)
(* result records whose err field names the exception class ("" = none).   *)
(* An optional Python value is the empty tuple (None) or a 1-tuple (Some). *)
(***************************************************************************)
EXTENDS Integers, Sequences, FiniteSets, TLC

\* ------------------------------------------------------------- bounds
MaxBatch == 2
MaxInputs == 2
MaxDepth == 2

\* ------------------------------------------------------------ options
None == <<>>
Some(v) == <<v>>
IsNone(o) == o = <<>>
Get(o) == o[1]

\* ------------------------------------------------------------ tensors
Tensor(shape, val) == [kind |-> "tensor", shape |-> shape, val |-> val]
StateTuple(c, h) == [kind |-> "tuple", c |-> c, h |-> h]
NoTensor == Tensor(<<>>, "none")

Max(a, b) == IF a >= b THEN a ELSE b

\* numpy-style broadcasting of two static shapes, aligned from the right
Front(s) == SubSeq(s, 1, Len(s) - 1)
Last(s) == s[Len(s)]
RECURSIVE CanBroadcast(_, _)
CanBroadcast(s1, s2) ==
  IF s1 = <<>> \/ s2 = <<>> THEN TRUE
  ELSE /\ Last(s1) = Last(s2) \/ Last(s1) = 1 \/ Last(s2) = 1
       /\ CanBroadcast(Front(s1), Front(s2))
RECURSIVE BroadcastShape(_, _)
BroadcastShape(s1, s2) ==
  IF s1 = <<>> THEN s2
  ELSE IF s2 = <<>> THEN s1
  ELSE BroadcastShape(Front(s1), Front(s2)) \o <<Max(Last(s1), Last(s2))>>

RECURSIVE Reverse(_)
Reverse(l) == IF l = <<>> THEN <<>> ELSE Reverse(Tail(l)) \o <<l[1]>>

\* a dimension that get_shape().as_list() reports as None
Unset == -1

RECURSIVE SumDepth(_)
SumDepth(shapes) ==
  IF shapes = <<>> THEN 0 ELSE shapes[1][4] + SumDepth(Tail(shapes))

\* --------------------------------------------- scoped variable store
\* variable_scope(..., reuse=r) entered inside a scope whose mode is outer:
\* reuse is inherited by sub-scopes unless the inner scope sets it.
ScopeReuse(outer, inner) == IF inner # "None" THEN inner ELSE outer

Fail(e, store) == [err |-> e, store |-> store, shape |-> <<>>]

\* get_variable that creates a missing variable and replaces one of another
\* shape whatever the scope's reuse mode
GetVariableRealloc(store, reuse, name, shape) ==
  [err |-> "",
   store |-> {v \in store : v.name # name} \cup {[name |-> name, shape |-> shape]},
   shape |-> shape]

\* tf.get_variable(name, shape) inside a scope whose reuse mode is reuse
GetVariable(store, reuse, name, shape) ==
  LET exists == \E v \in store : v.name = name
      found == CHOOSE v \in store : v.name = name
      created == store \cup {[name |-> name, shape |-> shape]}
  IN  IF reuse = "True"
        THEN IF exists /\ found.shape = shape
               THEN [err |-> "", store |-> store, shape |-> shape]
               ELSE Fail("ValueError", store)
      ELSE IF reuse = "AUTO_REUSE"
        THEN IF ~exists THEN [err |-> "", store |-> created, shape |-> shape]
             ELSE IF found.shape = shape
               THEN [err |-> "", store |-> store, shape |-> shape]
               ELSE Fail("ValueError", store)
      ELSE IF exists THEN Fail("ValueError", store)
           ELSE [err |-> "", store |-> created, shape |-> shape]

\* Code that touches the variable store is modelled as the sequence of its
\* get_variable calls and raise statements in program order (its trail), and
\* the trail is then run against the store.
GetOp(reuse, name, shape) ==
  [op |-> "get", reuse |-> reuse, name |-> name, shape |-> shape, err |-> ""]
RaiseOp(e) == [op |-> "raise", reuse |-> "", name |-> <<>>, shape |-> <<>>, err |-> e]
Raises(p) == \E i \in 1..Len(p) : p[i].op = "raise"
\* p1, and p2 after it unless p1 raises
Then(p1, p2) == IF Raises(p1) THEN p1 ELSE p1 \o p2
\* raise e unless cond
Check(cond, e) == IF cond THEN <<>> ELSE <<RaiseOp(e)>>

RECURSIVE RunOps(_, _, _)
\* run trail p from its i-th entry: the first error, and the store left
RunOps(p, i, store) ==
  IF i > Len(p) THEN [err |-> "", store |-> store, shape |-> <<>>]
  ELSE IF p[i].op = "raise" THEN Fail(p[i].err, store)
  ELSE LET r == GetVariable(store, p[i].reuse, p[i].name, p[i].shape)
       IN  IF r.err # "" THEN Fail(r.err, r.store)
           ELSE RunOps(p, i + 1, r.store)

\* element-wise arithmetic on optional shapes: None once two operands do not
\* broadcast
Bc(o1, o2) ==
  IF IsNone(o1) \/ IsNone(o2) THEN None
  ELSE IF CanBroadcast(Get(o1), Get(o2)) THEN Some(BroadcastShape(Get(o1), Get(o2)))
  ELSE None
\* g * a + (1 - g) * b
Mix(g, a, b) == Bc(Bc(g, a), Bc(g, b))

\* tf.split(value, n, axis=3): the shape of each part, None when it fails
SplitDepth(o, n) ==
  IF IsNone(o) THEN None
  ELSE IF Len(Get(o)) < 4 THEN None
  ELSE IF Get(o)[4] % n # 0 THEN None
  ELSE Some([Get(o) EXCEPT ![4] = Get(o)[4] \div n])

\* tf.concat(axis=3, values=[a, b]): None when it fails
ConcatDepth(a, b) ==
  IF IsNone(a) \/ IsNone(b) THEN None
  ELSE IF Len(Get(a)) # 4 \/ Len(Get(b)) # 4 THEN None
  ELSE IF SubSeq(Get(a), 1, 3) # SubSeq(Get(b), 1, 3) THEN None
  ELSE Some([Get(a) EXCEPT ![4] = Get(a)[4] + Get(b)[4]])

LastDim(shape) == <<shape[Len(shape)]>>

\* ------------------------------------------------- Linear Transform
\* _conv_linear(args, ...): the loop over the arguments' shapes rejects an
\* argument that is not 4-dimensional or has no depth
LinearBad(args) ==
  \E i \in 1..Len(args) :
    Len(args[i].shape) # 4 \/ args[i].shape[4] = 0 \/ args[i].shape[4] = Unset
\* the arguments can be concatenated along the depth axis
LinearConcat(args) ==
  \A i \in 1..Len(args) : SubSeq(args[i].shape, 1, 3) = SubSeq(args[1].shape, 1, 3)

\* _conv_linear(args, filter_size, out_depth, True, ...) in variable scope
\* `scope`: the checks, the kernel, the convolution of the concatenated
\* arguments, the bias
ConvLinear(args, filter_size, out_depth, scope, reuse) ==
  IF LinearBad(args) THEN <<RaiseOp("ValueError")>>
  \* dtype = [a.dtype for a in args][0]
  ELSE IF args = <<>> THEN <<RaiseOp("IndexError")>>
  ELSE Then(<<GetOp(reuse, scope \o <<"weights">>,
                    <<filter_size[1], filter_size[2],
                      SumDepth([i \in 1..Len(args) |-> args[i].shape]), out_depth>>)>>,
       Then(Check(LinearConcat(args), "ValueError"),
            <<GetOp(reuse, scope \o <<"bias">>, <<out_depth>>)>>))

\* the Transpose Linear Transform with the kernel allocated before the
\* arguments are checked
TransposeConvLinearKernelFirst(args, out_shape, filter_size, out_depth, scope, reuse) ==
  Then(<<GetOp(reuse, scope \o <<"weights">>,
               <<filter_size[1], filter_size[2], out_depth, Len(args)>>)>>,
       IF LinearBad(args) THEN <<RaiseOp("ValueError")>>
       ELSE <<GetOp(reuse, scope \o <<"bias">>, <<out_depth>>)>>)

\* _transpose_conv_linear(args, out_shape, filter_size, out_depth, True, ...)
\* in variable scope `scope`: the checks, the kernel, the transposed
\* convolution of the concatenated arguments to out_shape, the bias
TransposeConvLinear(args, out_shape, filter_size, out_depth, scope, reuse) ==
  IF LinearBad(args) THEN <<RaiseOp("ValueError")>>
  ELSE IF args = <<>> THEN <<RaiseOp("IndexError")>>
  ELSE Then(<<GetOp(reuse, scope \o <<"weights">>,
                    <<filter_size[1], filter_size[2], out_depth,
                      SumDepth([i \in 1..Len(args) |-> args[i].shape])>>)>>,
       Then(Check(LinearConcat(args), "ValueError"),
       \* conv2d_transpose: the batch sizes agree, out_shape has out_depth channels
       Then(Check(out_shape[1] = args[1].shape[1] /\ out_shape[4] = out_depth, "ValueError"),
            <<GetOp(reuse, scope \o <<"bias">>, <<out_depth>>)>>)))

\* the shape of what _conv_linear returns, None when it raises before
LinearShape(args, out_depth) ==
  IF LinearBad(args) \/ ~LinearConcat(args) THEN None
  ELSE Some(<<args[1].shape[1], args[1].shape[2], args[1].shape[3], out_depth>>)

\* tf.contrib.layers.layer_norm(inp, reuse=r, scope=scope): beta and gamma of
\* the last dimension, looked up in a sub-scope whose reuse mode is r
LayerNorm(shape, scope, outer, r) ==
  << GetOp(ScopeReuse(outer, r), scope \o <<"beta">>, LastDim(shape)),
     GetOp(ScopeReuse(outer, r), scope \o <<"gamma">>, LastDim(shape)) >>

\* the cells' _norm(inp, scope): gamma and beta by get_variable in the current
\* scope, then layer_norm(inp, reuse=True, scope=scope)
Norm(shape, scope, reuse) ==
  << GetOp(reuse, scope \o <<"gamma">>, LastDim(shape)),
     GetOp(reuse, scope \o <<"beta">>, LastDim(shape)) >>
  \o LayerNorm(shape, scope, reuse, "True")

\* ------------------------------------------------------ recurrent cells
\* A cell is the record of the attributes its constructor stores.  For each
\* cell class, <Class>Call is the trail of __call__(x, st), and <Class>Out and
\* <Class>State are the shapes of the pair it returns (None when it raises
\* on a shape).
CellFail(e, store) == [err |-> e, out |-> NoTensor, state |-> NoTensor, store |-> store]
CellOk(out, state, store) == [err |-> "", out |-> out, state |-> state, store |-> store]

\* zero_state without the LSTM's override for a concatenated state
ZeroStateNoOverride(cell, bs) ==
  LET z(d) == Tensor(<<bs, cell.shape[1], cell.shape[2], d>>, "zeros")
  IN  IF cell.kind = "LSTM" /\ cell.state_is_tuple
        THEN StateTuple(z(cell.out_depth), z(cell.out_depth))
      ELSE z(cell.out_depth)

\* ConvRNNCell.zero_state and the overrides of the LSTM, UGRNN and
\* IntersectionRNN cells
ZeroState(cell, bs) ==
  LET z(d) == Tensor(<<bs, cell.shape[1], cell.shape[2], d>>, "zeros")
  IN  IF cell.kind = "LSTM"
        THEN IF cell.state_is_tuple THEN StateTuple(z(cell.out_depth), z(cell.out_depth))
             ELSE z(cell.out_depth * 2)
      ELSE z(cell.out_depth)

ConvBasicCellOut(cell, x, st) == LinearShape(<<x, st>>, cell.out_depth)
ConvBasicCellCall(cell, scope, reuse, x, st) ==
  ConvLinear(<<x, st>>, cell.filter_size, cell.out_depth, scope \o <<"ConvBasicCell">>, reuse)

\* i + s
ConvNormBasicCellOut(cell, x, st) ==
  Bc(LinearShape(<<x>>, cell.out_depth), LinearShape(<<st>>, cell.out_depth))
ConvNormBasicCellCall(cell, scope, reuse, x, st) ==
  LET sc == scope \o <<"ConvNormBasicCell">>
      sum == ConvNormBasicCellOut(cell, x, st)
  IN  Then(ConvLinear(<<st>>, cell.filter_size, cell.out_depth, sc \o <<"s">>, reuse),
      Then(ConvLinear(<<x>>, cell.filter_size, cell.out_depth, sc \o <<"i">>, reuse),
      Then(Check(~IsNone(sum), "ValueError"),
           IF cell.layer_norm
             THEN LayerNorm(Get(sum), sc \o <<"layer_norm">>, reuse, "AUTO_REUSE")
             ELSE <<>>)))

\* r, u = tf.split(value, 2, axis=3); r * state
GRUGate(cell, x, st) == SplitDepth(LinearShape(<<x, st>>, 2 * cell.out_depth), 2)
GRUReset(cell, x, st) == Bc(GRUGate(cell, x, st), Some(st.shape))
\* new_h = u * state + (1 - u) * c
ConvGRUCellOut(cell, x, st) ==
  IF IsNone(GRUReset(cell, x, st)) THEN None
  ELSE Mix(GRUGate(cell, x, st), Some(st.shape),
           LinearShape(<<x, Tensor(Get(GRUReset(cell, x, st)), "cell")>>, cell.out_depth))
ConvGRUCellCall(cell, scope, reuse, x, st) ==
  LET sc == scope \o <<"ConvGRUCell">>
      rs == GRUReset(cell, x, st)
  IN  Then(ConvLinear(<<x, st>>, cell.filter_size, 2 * cell.out_depth,
                      sc \o <<"gates">>, reuse),
      Then(Check(~IsNone(rs), "ValueError"),
      Then(ConvLinear(<<x, Tensor(Get(rs), "cell")>>, cell.filter_size, cell.out_depth,
                      sc \o <<"candidates">>, reuse),
           Check(~IsNone(ConvGRUCellOut(cell, x, st)), "ValueError"))))

\* c, h = state                      (state_is_tuple)
\* c, h = tf.split(state, 2, axis=3) (otherwise)
LSTMTypeError(cell, st) ==
  IF st.kind = "tuple" /\ ~cell.state_is_tuple THEN "ValueError"
  ELSE IF st.kind # "tuple" /\ cell.state_is_tuple THEN "TypeError"
  ELSE ""
LSTMc(cell, st) == IF cell.state_is_tuple THEN Some(st.c.shape) ELSE SplitDepth(Some(st.shape), 2)
LSTMh(cell, st) == IF cell.state_is_tuple THEN Some(st.h.shape) ELSE SplitDepth(Some(st.shape), 2)
\* i, j, f, o = tf.split(concat, 4, axis=3)
LSTMGate(cell, x, st) ==
  IF IsNone(LSTMh(cell, st)) THEN None
  ELSE SplitDepth(LinearShape(<<x, Tensor(Get(LSTMh(cell, st)), "h")>>, cell.out_depth * 4), 4)
LSTMDiag(cell) == <<cell.shape[1], cell.shape[2], cell.out_depth>>
\* a gate's pre-activation, with w_x_diag * c added under peepholes
LSTMPeep(cell, x, st) ==
  IF cell.use_peepholes
    THEN Bc(LSTMGate(cell, x, st), Bc(Some(LSTMDiag(cell)), LSTMc(cell, st)))
    ELSE LSTMGate(cell, x, st)
\* new_c = c * sigmoid(f + forget_bias [+ w_f_diag * c])
\*         + sigmoid(i [+ w_i_diag * c]) * activation(j)
LSTMNewC(cell, x, st) ==
  Bc(Bc(LSTMc(cell, st), LSTMPeep(cell, x, st)),
     Bc(LSTMPeep(cell, x, st), LSTMGate(cell, x, st)))
\* new_h = activation(new_c) * sigmoid(o [+ w_o_diag * c])
ConvLSTMCellOut(cell, x, st) == Bc(LSTMNewC(cell, x, st), LSTMPeep(cell, x, st))
\* the new state without new_h
ConvLSTMCellStateCellOnly(cell, x, st) ==
  IF IsNone(ConvLSTMCellOut(cell, x, st)) THEN None
  ELSE Some(Tensor(Get(LSTMNewC(cell, x, st)), "cell"))

\* LSTMStateTuple(new_c, new_h) or tf.concat(axis=3, values=[new_c, new_h])
ConvLSTMCellState(cell, x, st) ==
  IF cell.state_is_tuple
    THEN IF IsNone(ConvLSTMCellOut(cell, x, st)) THEN None
         ELSE Some(StateTuple(Tensor(Get(LSTMNewC(cell, x, st)), "cell"),
                              Tensor(Get(ConvLSTMCellOut(cell, x, st)), "cell")))
  ELSE IF IsNone(ConcatDepth(LSTMNewC(cell, x, st), ConvLSTMCellOut(cell, x, st))) THEN None
  ELSE Some(Tensor(Get(ConcatDepth(LSTMNewC(cell, x, st), ConvLSTMCellOut(cell, x, st))),
                   "cell"))
ConvLSTMCellCall(cell, scope, reuse, x, st) ==
  LET sc == scope \o <<"ConvLSTMCell">>
      h == LSTMh(cell, st)
      gate == LSTMGate(cell, x, st)
      new_c == LSTMNewC(cell, x, st)
  IN  Then(Check(LSTMTypeError(cell, st) = "", LSTMTypeError(cell, st)),
      Then(Check(~IsNone(h), "ValueError"),
      Then(ConvLinear(<<x, Tensor(Get(h), "h")>>, cell.filter_size, cell.out_depth * 4,
                      sc, reuse),
      Then(IF cell.layer_norm
             THEN Norm(Get(gate), sc \o <<"input">>, reuse)
                  \o Norm(Get(gate), sc \o <<"transform">>, reuse)
                  \o Norm(Get(gate), sc \o <<"forget">>, reuse)
                  \o Norm(Get(gate), sc \o <<"output">>, reuse)
             ELSE <<>>,
      Then(IF cell.use_peepholes
             THEN << GetOp(reuse, sc \o <<"peepholes", "w_f_diag">>, LSTMDiag(cell)),
                     GetOp(reuse, sc \o <<"peepholes", "w_i_diag">>, LSTMDiag(cell)),
                     GetOp(reuse, sc \o <<"peepholes", "w_o_diag">>, LSTMDiag(cell)) >>
             ELSE <<>>,
      Then(Check(~IsNone(new_c), "ValueError"),
      Then(IF cell.layer_norm THEN Norm(Get(new_c), sc \o <<"state">>, reuse) ELSE <<>>,
      Then(Check(~IsNone(ConvLSTMCellOut(cell, x, st)), "ValueError"),
           Check(~IsNone(ConvLSTMCellState(cell, x, st)), "ValueError")))))))))

\* g_act, c_act = tf.split(concat, 2, axis=3)
UGRNNAct(cell, x, st) == SplitDepth(LinearShape(<<x, st>>, 2 * cell.out_depth), 2)
\* new_state = g * state + (1.0 - g) * c
ConvUGRNNCellOut(cell, x, st) ==
  Mix(UGRNNAct(cell, x, st), Some(st.shape), UGRNNAct(cell, x, st))
\* a UGRNN step that normalizes c_act instead of the undefined h_act
ConvUGRNNCellCallNormalized(cell, scope, reuse, x, st) ==
  LET sc == scope \o <<"ConvUGRNNCell">>
  IN  Then(ConvLinear(<<x, st>>, cell.filter_size, 2 * cell.out_depth, sc, reuse),
      Then(IF cell.layer_norm
             THEN Norm(Get(UGRNNAct(cell, x, st)), sc \o <<"g_act">>, reuse)
                  \o Norm(Get(UGRNNAct(cell, x, st)), sc \o <<"c_act">>, reuse)
             ELSE <<>>,
           Check(~IsNone(ConvUGRNNCellOut(cell, x, st)), "ValueError")))

\* With layer_norm, g_act = self._norm(g_act, "g_act") runs and then the
\* undefined name h_act is read for the second _norm call.
ConvUGRNNCellCall(cell, scope, reuse, x, st) ==
  LET sc == scope \o <<"ConvUGRNNCell">>
  IN  Then(ConvLinear(<<x, st>>, cell.filter_size, 2 * cell.out_depth, sc, reuse),
           IF cell.layer_norm
             THEN Norm(Get(UGRNNAct(cell, x, st)), sc \o <<"g_act">>, reuse)
                  \o <<RaiseOp("NameError")>>
             ELSE Check(~IsNone(ConvUGRNNCellOut(cell, x, st)), "ValueError"))

\* as_list()[1] != shape[0] or as_list()[2] != shape[1] or as_list()[3] != D,
\* evaluated left to right on a shape that may be shorter than 4
IntersectionCheck(cell, x) ==
  LET dimErr(i, want) == IF Len(x.shape) < i THEN "IndexError"
                         ELSE IF x.shape[i] # want THEN "ValueError" ELSE ""
  IN  IF dimErr(2, cell.shape[1]) # "" THEN dimErr(2, cell.shape[1])
      ELSE IF dimErr(3, cell.shape[2]) # "" THEN dimErr(3, cell.shape[2])
      ELSE dimErr(4, cell.out_depth)
\* gh_act, h_act, gy_act, y_act = tf.split(concat, [n, n, i, i], axis=3)
IntersectionAct(cell, x, st) ==
  IF IsNone(LinearShape(<<x, st>>, 4 * cell.out_depth)) THEN None
  ELSE Some([Get(LinearShape(<<x, st>>, 4 * cell.out_depth)) EXCEPT ![4] = cell.out_depth])
\* new_y = gy * inputs + (1.0 - gy) * y
ConvIntersectionRNNCellOut(cell, x, st) ==
  Mix(IntersectionAct(cell, x, st), Some(x.shape), IntersectionAct(cell, x, st))
\* new_state = gh * state + (1.0 - gh) * h
ConvIntersectionRNNCellState(cell, x, st) ==
  Mix(IntersectionAct(cell, x, st), Some(st.shape), IntersectionAct(cell, x, st))
\* the IntersectionRNN step with the input checked after the Linear Transform
ConvIntersectionRNNCellCallLateCheck(cell, scope, reuse, x, st) ==
  IF st.kind = "tuple" THEN <<RaiseOp("AttributeError")>>
  ELSE Then(ConvLinear(<<x, st>>, cell.filter_size, 4 * cell.out_depth,
                       scope \o <<"ConvIntersectionRNNCell">>, reuse),
            Check(IntersectionCheck(cell, x) = "", "ValueError"))

ConvIntersectionRNNCellCall(cell, scope, reuse, x, st) ==
  LET sc == scope \o <<"ConvIntersectionRNNCell">>
      D == cell.out_depth
      act == IntersectionAct(cell, x, st)
  IN  IF IntersectionCheck(cell, x) # "" THEN <<RaiseOp(IntersectionCheck(cell, x))>>
      \* a state tuple has no get_shape
      ELSE IF st.kind = "tuple" THEN <<RaiseOp("AttributeError")>>
      ELSE
      Then(ConvLinear(<<x, st>>, cell.filter_size, 2 * D + 2 * D, sc, reuse),
      Then(IF cell.layer_norm
             THEN Norm(Get(act), sc \o <<"gh_act">>, reuse)
                  \o Norm(Get(act), sc \o <<"h_act">>, reuse)
                  \o Norm(Get(act), sc \o <<"gy_act">>, reuse)
                  \o Norm(Get(act), sc \o <<"y_act">>, reuse)
             ELSE <<>>,
           Check(~IsNone(ConvIntersectionRNNCellState(cell, x, st))
                 /\ ~IsNone(ConvIntersectionRNNCellOut(cell, x, st)), "ValueError")))

\* self.conv_cell(output, state): dispatch on the cell's class.  A state tuple
\* handed to a cell that takes one tensor has no get_shape / dtype; the
\* IntersectionRNN cell checks its input before it touches the state.
CellTrail(cell, scope, reuse, x, st) ==
  IF cell.kind = "LSTM" THEN ConvLSTMCellCall(cell, scope, reuse, x, st)
  ELSE IF cell.kind = "IntersectionRNN"
    THEN ConvIntersectionRNNCellCall(cell, scope, reuse, x, st)
  ELSE IF st.kind = "tuple" THEN <<RaiseOp("AttributeError")>>
  ELSE IF cell.kind = "Basic" THEN ConvBasicCellCall(cell, scope, reuse, x, st)
  ELSE IF cell.kind = "NormBasic" THEN ConvNormBasicCellCall(cell, scope, reuse, x, st)
  ELSE IF cell.kind = "GRU" THEN ConvGRUCellCall(cell, scope, reuse, x, st)
  ELSE IF cell.kind = "UGRNN" THEN ConvUGRNNCellCall(cell, scope, reuse, x, st)
  ELSE ConvIntersectionRNNCellCall(cell, scope, reuse, x, st)

\* the output a cell's __call__ returns
CellOut(cell, x, st) ==
  Tensor(Get(IF cell.kind = "LSTM" THEN ConvLSTMCellOut(cell, x, st)
             ELSE IF cell.kind = "Basic" THEN ConvBasicCellOut(cell, x, st)
             ELSE IF cell.kind = "NormBasic" THEN ConvNormBasicCellOut(cell, x, st)
             ELSE IF cell.kind = "GRU" THEN ConvGRUCellOut(cell, x, st)
             ELSE IF cell.kind = "UGRNN" THEN ConvUGRNNCellOut(cell, x, st)
             ELSE ConvIntersectionRNNCellOut(cell, x, st)), "cell")

\* the new state a cell's __call__ returns: the output itself for every cell
\* but the LSTM and the IntersectionRNN
CellState(cell, x, st) ==
  IF cell.kind = "LSTM" THEN Get(ConvLSTMCellState(cell, x, st))
  ELSE IF cell.kind = "IntersectionRNN"
    THEN Tensor(Get(ConvIntersectionRNNCellState(cell, x, st)), "cell")
  ELSE CellOut(cell, x, st)

\* cell(x, st) against the store
CellCall(cell, scope, reuse, x, st, store) ==
  LET r == RunOps(CellTrail(cell, scope, reuse, x, st), 1, store)
  IN  IF r.err # "" THEN CellFail(r.err, r.store)
      ELSE CellOk(CellOut(cell, x, st), CellState(cell, x, st), r.store)

\* ---------------------------------------------------- tensor values
\* What a cell computes is modelled channel by channel: the value of a tensor
\* is the sequence of its channels along axis 3, and a channel is the term
\* that computes it.  A term names its operation, the variable scope or the
\* input it reads (name), its channel index (k), and its operand terms.
Term(op, name, k, args) == [op |-> op, name |-> name, k |-> k, args |-> args]
Leaf(tag, k) == Term("in", <<tag>>, k, <<>>)
Scalar(c) == <<Term("const", <<c>>, 0, <<>>)>>

RECURSIVE Channels(_, _)
\* the n channels of the tensor a caller passes as `tag`
Channels(tag, n) == IF n = 0 THEN <<>> ELSE Channels(tag, n - 1) \o <<Leaf(tag, n)>>
RECURSIVE ZerosValue(_)
\* tf.zeros with n channels
ZerosValue(n) == IF n = 0 THEN <<>> ELSE ZerosValue(n - 1) \o Scalar("0")
RECURSIVE VariableValue(_, _)
\* the n channels of the variable `name`
VariableValue(name, n) ==
  IF n = 0 THEN <<>> ELSE VariableValue(name, n - 1) \o <<Term("variable", name, n, <<>>)>>

RECURSIVE Map(_, _)
\* an element-wise function of one tensor
Map(op, v) ==
  IF v = <<>> THEN <<>> ELSE <<Term(op, <<>>, 0, <<v[1]>>)>> \o Map(op, Tail(v))
RECURSIVE Zip(_, _, _, _)
\* an element-wise operation on two tensors, from channel k on; a tensor of
\* one channel (or a Python number) is broadcast
Zip(op, a, b, k) ==
  IF k > Max(Len(a), Len(b)) THEN <<>>
  ELSE <<Term(op, <<>>, 0, <<a[IF Len(a) = 1 THEN 1 ELSE k],
                             b[IF Len(b) = 1 THEN 1 ELSE k]>>)>>
       \o Zip(op, a, b, k + 1)
Add(a, b) == Zip("add", a, b, 1)
Sub(a, b) == Zip("sub", a, b, 1)
Mul(a, b) == Zip("mul", a, b, 1)

RECURSIVE LinearChannels(_, _, _)
LinearChannels(scope, n, concat) ==
  IF n = 0 THEN <<>>
  ELSE LinearChannels(scope, n - 1, concat) \o <<Term("linear", scope, n, concat)>>
RECURSIVE ConcatValue(_)
\* tf.concat(axis=3, values=args)
ConcatValue(args) == IF args = <<>> THEN <<>> ELSE args[1] \o ConcatValue(Tail(args))
\* what _conv_linear(args, filter_size, out_depth, True, ...) returns in the
\* variable scope `scope`: every output channel is computed from all channels
\* of the concatenated arguments with the kernel and the bias of the scope
LinearValue(args, out_depth, scope) == LinearChannels(scope, out_depth, ConcatValue(args))

RECURSIVE NormChannels(_, _, _)
NormChannels(scope, n, inp) ==
  IF n = 0 THEN <<>>
  ELSE NormChannels(scope, n - 1, inp) \o <<Term("layer_norm", scope, n, inp)>>
\* layer_norm(inp, scope=scope): every channel is normalized over all channels
NormValue(inp, scope) == NormChannels(scope, Len(inp), inp)

RECURSIVE SplitSizes(_, _)
\* tf.split(value, sizes, axis=3): consecutive slices of the given sizes
SplitSizes(v, sizes) ==
  IF sizes = <<>> THEN <<>>
  ELSE <<SubSeq(v, 1, sizes[1])>>
       \o SplitSizes(SubSeq(v, sizes[1] + 1, Len(v)), Tail(sizes))
RECURSIVE Repeat(_, _)
Repeat(x, n) == IF n = 0 THEN <<>> ELSE <<x>> \o Repeat(x, n - 1)

\* the slices in the opposite order
SplitValueReversed(v, n) == Reverse(SplitSizes(v, Repeat(Len(v) \div n, n)))

\* tf.split(value, n, axis=3): n equal consecutive slices
SplitValue(v, n) == SplitSizes(v, Repeat(Len(v) \div n, n))

\* ------------------------------------------- what the cells compute
\* <Class>Value(cell, xv, sv) is the pair a cell's __call__ returns for the
\* input value xv and the state value sv: out is the output, state the parts
\* of the new state (one tensor, or c and h of an LSTMStateTuple).  sv is
\* given in parts the same way.
Activation(v) == Map("activation", v)
Sigmoid(v) == Map("sigmoid", v)
Tanh(v) == Map("tanh", v)
ReluValue(v) == Map("relu", v)

ConvBasicCellValue(cell, xv, sv) ==
  LET output == Activation(LinearValue(<<xv, sv[1]>>, cell.out_depth, <<"ConvBasicCell">>))
  IN  [out |-> output, state |-> <<output>>]

ConvNormBasicCellValue(cell, xv, sv) ==
  LET s == LinearValue(<<sv[1]>>, cell.out_depth, <<"ConvNormBasicCell", "s">>)
      i == LinearValue(<<xv>>, cell.out_depth, <<"ConvNormBasicCell", "i">>)
      new_state == IF cell.layer_norm
                     THEN Activation(NormValue(Add(i, s), <<"ConvNormBasicCell", "layer_norm">>))
                     ELSE Activation(Add(i, s))
  IN  [out |-> new_state, state |-> <<new_state>>]

ConvGRUCellValue(cell, xv, sv) ==
  LET state == sv[1]
      value == Sigmoid(LinearValue(<<xv, state>>, 2 * cell.out_depth,
                                   <<"ConvGRUCell", "gates">>))
      r == SplitValue(value, 2)[1]
      u == SplitValue(value, 2)[2]
      c == Activation(LinearValue(<<xv, Mul(r, state)>>, cell.out_depth,
                                  <<"ConvGRUCell", "candidates">>))
      new_h == Add(Mul(u, state), Mul(Sub(Scalar("1"), u), c))
  IN  [out |-> new_h, state |-> <<new_h>>]

\* the new state with h before c
LSTMJoinStateSwapped(cell, new_c, new_h) ==
  IF cell.state_is_tuple THEN <<new_h, new_c>> ELSE <<new_h \o new_c>>

\* c, h = state, or c, h = tf.split(axis=3, num_or_size_splits=2, value=state)
LSTMSplitState(cell, sv) == IF cell.state_is_tuple THEN sv ELSE SplitValue(sv[1], 2)
\* LSTMStateTuple(new_c, new_h), or tf.concat(axis=3, values=[new_c, new_h])
LSTMJoinState(cell, new_c, new_h) ==
  IF cell.state_is_tuple THEN <<new_c, new_h>> ELSE <<ConcatValue(<<new_c, new_h>>)>>

ConvLSTMCellValue(cell, xv, sv) ==
  LET sc == <<"ConvLSTMCell">>
      c == LSTMSplitState(cell, sv)[1]
      h == LSTMSplitState(cell, sv)[2]
      concat == LinearValue(<<xv, h>>, cell.out_depth * 4, sc)
      gate(m, scope) == IF cell.layer_norm
                          THEN NormValue(SplitValue(concat, 4)[m], sc \o <<scope>>)
                          ELSE SplitValue(concat, 4)[m]
      i == gate(1, "input")
      j == gate(2, "transform")
      f == gate(3, "forget")
      o == gate(4, "output")
      diag(name) == VariableValue(sc \o <<"peepholes", name>>, cell.out_depth)
      sum == IF cell.use_peepholes
               THEN Add(Mul(c, Sigmoid(Add(Add(f, Scalar("forget_bias")),
                                           Mul(diag("w_f_diag"), c)))),
                        Mul(Sigmoid(Add(i, Mul(diag("w_i_diag"), c))), Activation(j)))
             ELSE Add(Mul(c, Sigmoid(Add(f, Scalar("forget_bias")))),
                      Mul(Sigmoid(i), Activation(j)))
      new_c == IF cell.layer_norm THEN NormValue(sum, sc \o <<"state">>) ELSE sum
      new_h == IF cell.use_peepholes
                 THEN Mul(Activation(new_c), Sigmoid(Add(o, Mul(diag("w_o_diag"), c))))
               ELSE Mul(Activation(new_c), Sigmoid(o))
  IN  [out |-> new_h, state |-> LSTMJoinState(cell, new_c, new_h)]

\* without layer_norm (with it __call__ raises NameError)
ConvUGRNNCellValue(cell, xv, sv) ==
  LET state == sv[1]
      concat == LinearValue(<<xv, state>>, 2 * cell.out_depth, <<"ConvUGRNNCell">>)
      g_act == SplitValue(concat, 2)[1]
      c_act == SplitValue(concat, 2)[2]
      c == Tanh(c_act)
      g == Sigmoid(Add(g_act, Scalar("forget_bias")))
      new_state == Add(Mul(g, state), Mul(Sub(Scalar("1"), g), c))
  IN  [out |-> new_state, state |-> <<new_state>>]

\* the output carried by the state instead of the input
ConvIntersectionRNNCellValueStateCarry(cell, xv, sv) ==
  LET state == sv[1]
      concat == LinearValue(<<xv, state>>, 4 * cell.out_depth, <<"ConvIntersectionRNNCell">>)
      acts == SplitSizes(concat, Repeat(cell.out_depth, 4))
      h == Tanh(acts[2])
      y == ReluValue(acts[4])
      gh == Sigmoid(Add(acts[1], Scalar("forget_bias")))
      gy == Sigmoid(Add(acts[3], Scalar("forget_bias")))
  IN  [out |-> Add(Mul(gy, state), Mul(Sub(Scalar("1"), gy), y)),
       state |-> <<Add(Mul(gh, state), Mul(Sub(Scalar("1"), gh), h))>>]

ConvIntersectionRNNCellValue(cell, xv, sv) ==
  LET sc == <<"ConvIntersectionRNNCell">>
      state == sv[1]
      n_dim == cell.out_depth
      i_dim == cell.out_depth
      concat == LinearValue(<<xv, state>>, 2 * n_dim + 2 * i_dim, sc)
      acts == SplitSizes(concat, <<n_dim, n_dim, i_dim, i_dim>>)
      act(m, scope) == IF cell.layer_norm THEN NormValue(acts[m], sc \o <<scope>>)
                       ELSE acts[m]
      gh_act == act(1, "gh_act")
      h_act == act(2, "h_act")
      gy_act == act(3, "gy_act")
      y_act == act(4, "y_act")
      h == Tanh(h_act)
      y == ReluValue(y_act)
      gh == Sigmoid(Add(gh_act, Scalar("forget_bias")))
      gy == Sigmoid(Add(gy_act, Scalar("forget_bias")))
      new_state == Add(Mul(gh, state), Mul(Sub(Scalar("1"), gh), h))
      new_y == Add(Mul(gy, xv), Mul(Sub(Scalar("1"), gy), y))
  IN  [out |-> new_y, state |-> <<new_state>>]

\* the value of cell(x, st), for a call that returns
CellValue(cell, xv, sv) ==
  IF cell.kind = "LSTM" THEN ConvLSTMCellValue(cell, xv, sv)
  ELSE IF cell.kind = "Basic" THEN ConvBasicCellValue(cell, xv, sv)
  ELSE IF cell.kind = "NormBasic" THEN ConvNormBasicCellValue(cell, xv, sv)
  ELSE IF cell.kind = "GRU" THEN ConvGRUCellValue(cell, xv, sv)
  ELSE IF cell.kind = "UGRNN" THEN ConvUGRNNCellValue(cell, xv, sv)
  ELSE ConvIntersectionRNNCellValue(cell, xv, sv)

\* ------------------------------------------- node wrapper: construction
Kinds == {"Basic", "NormBasic", "GRU", "LSTM", "UGRNN", "IntersectionRNN"}
RequiredKeys == {"shape", "filter_size", "out_depth"}
\* keys the constructor reads as memory[1][key]
IndexedKeys(kind) ==
  IF kind = "NormBasic"
    THEN RequiredKeys \cup {"layer_norm", "kernel_regularizer", "bias_regularizer"}
    ELSE RequiredKeys
\* parameters of the cell constructors called as Cell(**self.memory[1])
KeywordKeys(kind) ==
  RequiredKeys
  \cup {"weight_decay", "forget_bias", "kernel_initializer", "bias_initializer",
        "layer_norm", "norm_gain", "norm_shift"}
  \cup (IF kind = "LSTM" THEN {"use_peepholes", "state_is_tuple", "activation"} ELSE {})

Opt(opts, k, default) == IF k \in DOMAIN opts THEN opts[k] ELSE default

\* the attributes a cell constructor stores
NewCell(kind, opts) ==
  [kind |-> kind,
   shape |-> opts.shape,
   filter_size |-> opts.filter_size,
   out_depth |-> opts.out_depth,
   layer_norm |-> IF kind \in {"Basic", "GRU"} THEN FALSE ELSE Opt(opts, "layer_norm", FALSE),
   state_is_tuple |-> IF kind = "LSTM" THEN Opt(opts, "state_is_tuple", FALSE) ELSE FALSE,
   use_peepholes |-> IF kind = "LSTM" THEN Opt(opts, "use_peepholes", FALSE) ELSE FALSE]

\* a constructor that allocates the cell's kernel
InitTrailEager(kind, opts) ==
  <<GetOp("None", <<"Conv" \o kind \o "Cell", "weights">>,
          <<opts.filter_size[1], opts.filter_size[2], opts.out_depth, opts.out_depth>>)>>

\* the get_variable calls of a cell's __init__ (and of the tnn_*Cell.__init__
\* that calls it): the constructors only store their arguments
InitTrail(kind, opts) == <<>>

\* a __call__ that caches the input's height and width on the cell
CellSelfCachesShape(cell, x, st) ==
  IF Len(x.shape) = 4 THEN [cell EXCEPT !.shape = <<x.shape[2], x.shape[3]>>] ELSE cell

\* the attributes of the cell object after __call__(x, st): no cell's
\* __call__ assigns to self
CellSelf(cell, x, st) == cell

\* the property state_size: _size, and for the LSTM the pair (_size, _size) or
\* _concat_size
CellStateSize(cell) ==
  LET size(d) == <<cell.shape[1], cell.shape[2], d>>
  IN  IF cell.kind = "LSTM"
        THEN IF cell.state_is_tuple THEN <<size(cell.out_depth), size(cell.out_depth)>>
             ELSE <<size(2 * cell.out_depth)>>
      ELSE <<size(cell.out_depth)>>

\* the exception the last line of tnn_*Cell.__init__ raises, "" when none;
\* memory is the options half of the memory argument, None by default
CellInitError(kind, memory) ==
  LET keys == IF IsNone(memory) THEN {} ELSE DOMAIN Get(memory)
  IN  IF kind \in {"Basic", "NormBasic", "GRU"}
        THEN IF IsNone(memory) THEN "TypeError"
             ELSE IF ~(IndexedKeys(kind) \subseteq keys) THEN "KeyError"
             ELSE ""
      ELSE IF ~(RequiredKeys \subseteq keys) \/ ~(keys \subseteq KeywordKeys(kind))
        THEN "TypeError"
      ELSE ""

\* tnn_*Cell.__init__ when its last line, the cell constructor, returns: the
\* wrapper's attributes
TnnInit(kind, harbor_shape, harbor, pre_memory, memory, post_memory, input_init, name) ==
  [kind |-> kind,
   harbor_shape |-> harbor_shape,
   harbor |-> harbor,
   pre_memory |-> pre_memory,
   memory |-> Get(memory),
   post_memory |-> post_memory,
   input_init |-> input_init,
   name_tmp |-> name,
   reuse |-> "None",
   conv_cell |-> NewCell(kind, Get(memory)),
   state |-> None,
   output_tmp |-> None,
   state_shape |-> None,
   output_tmp_shape |-> None]

\* a constructor that fills in the keys the memory options lack
TnnNewDefaults(kind, harbor_shape, harbor, pre_memory, memory, post_memory, input_init, name) ==
  LET given == IF IsNone(memory) THEN {} ELSE DOMAIN Get(memory)
      fill == [shape |-> <<2, 2>>, filter_size |-> <<1, 1>>, out_depth |-> 1,
               layer_norm |-> FALSE, kernel_regularizer |-> 0, bias_regularizer |-> 0]
      full == [k \in IndexedKeys(kind) \cup given |->
                 IF k \in given THEN Get(memory)[k] ELSE fill[k]]
  IN  [err |-> "",
       w |-> Some(TnnInit(kind, harbor_shape, harbor, pre_memory, Some(full), post_memory,
                          input_init, name))]

\* tnn_<kind>Cell(...): the exception raised, or the new object
TnnNew(kind, harbor_shape, harbor, pre_memory, memory, post_memory, input_init, name) ==
  IF CellInitError(kind, memory) # ""
    THEN [err |-> CellInitError(kind, memory), w |-> None]
  ELSE [err |-> "",
        w |-> Some(TnnInit(kind, harbor_shape, harbor, pre_memory, memory, post_memory,
                           input_init, name))]

\* ------------------------------------------------- node wrapper: step
\* one record per call the wrapper makes while it runs a step
Entry(phase, idx, fname, tin, raw, st, res, rst, err) ==
  [phase |-> phase, idx |-> idx, fname |-> fname, tin |-> tin, raw |-> raw, st |-> st,
   shape |-> None, name |-> "", reuse |-> "", opts |-> None,
   res |-> res, rst |-> rst, err |-> err]

RECURSIVE Size(_)
Size(shape) == IF shape = <<>> THEN 1 ELSE shape[1] * Size(Tail(shape))

\* "pre_" + str(pre_name_counter), "post_" + str(post_name_counter)
IndexName(prefix, i) ==
  IF prefix = "pre" THEN <<"pre_0", "pre_1", "pre_2">>[i + 1]
  ELSE <<"post_0", "post_1", "post_2">>[i + 1]

StepFail(e, store) == [err |-> e, out |-> NoTensor, store |-> store]

\* The harbor: reduces the list of inputs to one tensor of the target shape.
\* It rejects an empty list; with the option alloc it owns one parameter in
\* the node's scope, sized by the inputs' total depth.
Harbor(inputs, shape, name, reuse, opts, store) ==
  IF inputs = <<>> THEN StepFail("ValueError", store)
  ELSE IF ~opts.alloc THEN [err |-> "", out |-> Tensor(shape, "harbor"), store |-> store]
  ELSE LET v == GetVariable(store, ScopeReuse("None", reuse), <<name, "harbor", "weights">>,
                            <<SumDepth([i \in 1..Len(inputs) |-> inputs[i].shape]),
                              shape[4]>>)
       IN  IF v.err # "" THEN StepFail(v.err, v.store)
           ELSE [err |-> "", out |-> Tensor(shape, "harbor"), store |-> v.store]

\* function(output, **kwargs) or function(output, inputs, **kwargs) for the
\* step functions relu (tf.nn.relu), reshape (tf.reshape) and component_conv;
\* raw is Some(inputs) when the inputs are passed, tag names the result
ApplyStep(fn, tin, raw, scope, reuse, store, tag) ==
  LET w == GetVariable(store, reuse, scope \o <<"weights">>,
                       <<SumDepth([i \in 1..Len(Get(raw)) |-> Get(raw)[i].shape]),
                         tin.shape[Len(tin.shape)]>>)
  IN  IF fn.fname = "component_conv"
        THEN IF IsNone(raw) THEN StepFail("TypeError", store)
             ELSE IF w.err # "" THEN StepFail(w.err, w.store)
             ELSE [err |-> "", out |-> Tensor(tin.shape, tag), store |-> w.store]
      ELSE IF ~IsNone(raw) THEN StepFail("TypeError", store)
      ELSE IF fn.fname = "reshape"
        THEN IF Size(Get(fn.kwargs).shape) # Size(tin.shape) THEN StepFail("ValueError", store)
             ELSE [err |-> "", out |-> Tensor(Get(fn.kwargs).shape, tag), store |-> store]
      ELSE [err |-> "", out |-> Tensor(tin.shape, tag), store |-> store]

\* every pipeline step is handed the raw inputs
NeedsInputsAlways(fn) == TRUE

\* whether the wrapper hands the raw inputs to a pipeline step
NeedsInputs(fn) == fn.fname = "component_conv"

RECURSIVE RunSteps(_, _, _, _, _, _, _, _)
\* the body of "for function, kwargs in self.pre_memory / self.post_memory",
\* from step i on; tin is the running output
RunSteps(steps, i, phase, tin, inputs, scope, reuse, store) ==
  IF i > Len(steps)
    THEN [err |-> "", out |-> tin, store |-> store, trace |-> <<>>]
  ELSE
    LET fn == steps[i]
        raw == IF NeedsInputs(fn) THEN Some(inputs) ELSE None
        e(r) == [Entry(phase, i - 1, fn.fname, Some(tin), raw, None,
                       IF r.err = "" THEN Some(r.out) ELSE None, None, r.err)
                 EXCEPT !.opts = fn.kwargs]
    IN  LET r == ApplyStep(fn, tin, raw, scope \o <<IndexName(phase, i - 1)>>, reuse,
                           store, IndexName(phase, i - 1))
        IN  IF r.err # ""
              THEN [err |-> r.err, out |-> NoTensor, store |-> r.store, trace |-> <<e(r)>>]
            ELSE LET rest == RunSteps(steps, i + 1, phase, r.out, inputs, scope, reuse,
                                      r.store)
                 IN  [rest EXCEPT !.trace = <<e(r)>> \o @]

\* a pipeline run from its last step to its first
RunPipelineReversed(pipeline, phase, tin, inputs, scope, reuse, store) ==
  IF IsNone(pipeline)
    THEN [err |-> "TypeError", out |-> NoTensor, store |-> store, trace |-> <<>>]
  ELSE RunSteps(Reverse(Get(pipeline)), 1, phase, tin, inputs, scope, reuse, store)

\* a pipeline left at None run as an empty list
RunPipelineNoneEmpty(pipeline, phase, tin, inputs, scope, reuse, store) ==
  RunSteps(IF IsNone(pipeline) THEN <<>> ELSE Get(pipeline), 1, phase, tin, inputs, scope,
           reuse, store)

\* iterating a pipeline left at the constructor default None is a TypeError
RunPipeline(pipeline, phase, tin, inputs, scope, reuse, store) ==
  IF IsNone(pipeline)
    THEN [err |-> "TypeError", out |-> NoTensor, store |-> store, trace |-> <<>>]
  ELSE RunSteps(Get(pipeline), 1, phase, tin, inputs, scope, reuse, store)

\* the static shape of tf.identity(state): a state tuple is packed into one
\* tensor, which needs both parts to have one shape
IdentityShape(state) ==
  IF state.kind = "tuple"
    THEN IF state.c.shape = state.h.shape THEN Some(<<2>> \o state.c.shape) ELSE None
  ELSE Some(state.shape)

\* an exception caught on its way out of __call__ and replaced by another
CallFailReplaced(e, w, store, trace) ==
  [err |-> "RuntimeError", output |-> None, state |-> None, w |-> w, store |-> store,
   trace |-> trace]

\* an exception leaves __call__ after the reuse flag has been set
CallFailFlagSet(e, w, store, trace) ==
  [err |-> e, output |-> None, state |-> None, w |-> [w EXCEPT !.reuse = "True"],
   store |-> store, trace |-> trace]

\* an exception leaves __call__: nothing is returned, the attributes and the
\* store stay as they were when it was raised
CallFail(e, w, store, trace) ==
  [err |-> e, output |-> None, state |-> None, w |-> w, store |-> store, trace |-> trace]

\* the shape metadata copied from the attributes of the call before
CommitPrevious(w, output) ==
  [w EXCEPT !.output_tmp = Some(output.shape),
            !.reuse = "True",
            !.state_shape = w.state_shape,
            !.output_tmp_shape = w.output_tmp]

\* the end of __call__ without "self._reuse = True"
CommitNoFlag(w, output) ==
  [w EXCEPT !.output_tmp = Some(output.shape),
            !.state_shape = w.state,
            !.output_tmp_shape = Some(output.shape)]

\* self.output_tmp = tf.identity(tf.cast(output, self.dtype_tmp), name='output')
\* self._reuse = True
\* self.state_shape = self.state.shape
\* self.output_tmp_shape = self.output_tmp.shape
Commit(w, output) ==
  [w EXCEPT !.output_tmp = Some(output.shape),
            !.reuse = "True",
            !.state_shape = w.state,
            !.output_tmp_shape = Some(output.shape)]

\* a step that returns the post-memory pipeline's result as the state too
AfterCellStateFromPost(w, ins, cell, trace) ==
  LET scope == <<w.name_tmp>>
      reuse == ScopeReuse("None", w.reuse)
      ident == IdentityShape(cell.state)
      w1 == [w EXCEPT !.state = ident]
  IN  IF IsNone(ident) THEN CallFail("ValueError", w, cell.store, trace)
      ELSE LET post == RunPipeline(w.post_memory, "post", cell.out, ins, scope,
                                   ScopeReuse(reuse, w.reuse), cell.store)
           IN  IF post.err # ""
                 THEN CallFail(post.err, w1, post.store, trace \o post.trace)
               ELSE [err |-> "", output |-> Some(post.out), state |-> Some(post.out),
                     w |-> Commit(w1, post.out),
                     store |-> post.store, trace |-> trace \o post.trace]

\* the part of __call__ after the recurrent cell has returned `cell`: the
\* identity on the state, the post-memory pipeline, the attributes set at the
\* end and the return
AfterCell(w, ins, cell, trace) ==
  LET scope == <<w.name_tmp>>
      reuse == ScopeReuse("None", w.reuse)
      \* self.state = tf.identity(state, name='state')
      ident == IdentityShape(cell.state)
      w1 == [w EXCEPT !.state = ident]
  IN  IF IsNone(ident) THEN CallFail("ValueError", w, cell.store, trace)
      ELSE LET post == RunPipeline(w.post_memory, "post", cell.out, ins, scope,
                                   ScopeReuse(reuse, w.reuse), cell.store)
           IN  IF post.err # ""
                 THEN CallFail(post.err, w1, post.store, trace \o post.trace)
               ELSE [err |-> "", output |-> Some(post.out), state |-> Some(cell.state),
                     w |-> Commit(w1, post.out),
                     store |-> post.store, trace |-> trace \o post.trace]

\* the initial state with the batch size read from the harbor shape instead
\* of the tensor that reaches the cell
InitStateHarborBatch(w, state, output) ==
  IF IsNone(state)
    THEN [st |-> ZeroState(w.conv_cell, w.harbor_shape[1]),
          trace |-> <<Entry("zero_state", w.harbor_shape[1], "zero_state", None, None, None,
                            None, Some(ZeroState(w.conv_cell, w.harbor_shape[1])), "")>>]
  ELSE [st |-> Get(state), trace |-> <<>>]

\* if state is None:
\*     bs = output.get_shape().as_list()[0]
\*     state = self.conv_cell.zero_state(bs, dtype = self.dtype_tmp)
\* output is the tensor the pre-memory pipeline returned
InitState(w, state, output) ==
  IF IsNone(state)
    THEN [st |-> ZeroState(w.conv_cell, output.shape[1]),
          trace |-> <<Entry("zero_state", output.shape[1], "zero_state", None, None, None,
                            None, Some(ZeroState(w.conv_cell, output.shape[1])), "")>>]
  ELSE [st |-> Get(state), trace |-> <<>>]

\* the part of __call__ after the pre-memory pipeline has returned `pre`: the
\* initial state, the recurrent cell
AfterPre(w, ins, state, pre, trace) ==
  LET init == InitState(w, state, pre.out)
      t4(cell) == trace \o init.trace
                  \o <<Entry("cell", 0, w.kind, Some(pre.out), None, Some(init.st),
                             IF cell.err = "" THEN Some(cell.out) ELSE None,
                             IF cell.err = "" THEN Some(cell.state) ELSE None, cell.err)>>
  IN  IF IsNone(state) /\ pre.out.shape = <<>>
        THEN CallFail("IndexError", w, pre.store, trace)
      ELSE LET cell == CellCall(w.conv_cell, <<w.name_tmp>>, ScopeReuse("None", w.reuse),
                                pre.out, init.st, pre.store)
           IN  IF cell.err # "" THEN CallFail(cell.err, w, cell.store, t4(cell))
               ELSE AfterCell(w, ins, cell, t4(cell))

\* the initial input synthesized for an empty list as well as for None
InitInputsOrEmpty(w, inputs) ==
  IF IsNone(inputs) \/ inputs = Some(<<>>)
    THEN [ins |-> <<Tensor(w.harbor_shape, w.input_init)>>,
          trace |-> <<Entry("input_init", 0, w.input_init, None, None, None,
                            Some(Tensor(w.harbor_shape, w.input_init)), None, "")>>]
  ELSE [ins |-> Get(inputs), trace |-> <<>>]

\* if inputs is None:
\*     inputs = [self.input_init[0](shape=self.harbor_shape, **self.input_init[1])]
InitInputs(w, inputs) ==
  IF IsNone(inputs)
    THEN [ins |-> <<Tensor(w.harbor_shape, w.input_init)>>,
          trace |-> <<Entry("input_init", 0, w.input_init, None, None, None,
                            Some(Tensor(w.harbor_shape, w.input_init)), None, "")>>]
  ELSE [ins |-> Get(inputs), trace |-> <<>>]

\* the harbor called without the wrapper's reuse flag
HarborArgsNoReuse(w, ins) ==
  [inputs |-> ins, shape |-> w.harbor_shape, name |-> w.name_tmp, reuse |-> "None",
   opts |-> w.harbor]

\* the arguments of
\* self.harbor[0](inputs, self.harbor_shape, self.name_tmp, reuse=self._reuse,
\*                **self.harbor[1])
HarborArgs(w, ins) ==
  [inputs |-> ins, shape |-> w.harbor_shape, name |-> w.name_tmp, reuse |-> w.reuse,
   opts |-> w.harbor]

\* tnn_*Cell.__call__(inputs, state) on wrapper w with the variable store
\* `store`: the exception or the returned (output, state), the wrapper's
\* attributes and the store afterwards, and the calls made on the way
TnnCall(w, inputs, state, store) ==
  LET scope == <<w.name_tmp>>
      \* with tf.variable_scope(self.name_tmp, reuse=self._reuse)
      reuse == ScopeReuse("None", w.reuse)
      init == InitInputs(w, inputs)
      ha == HarborArgs(w, init.ins)
      t1(hb) == init.trace
                \o <<[Entry("harbor", 0, "harbor", None, Some(ha.inputs), None,
                            IF hb.err = "" THEN Some(hb.out) ELSE None, None, hb.err)
                       EXCEPT !.shape = Some(ha.shape), !.name = ha.name,
                              !.reuse = ha.reuse, !.opts = Some(ha.opts)]>>
  IN  LET hb == Harbor(ha.inputs, ha.shape, ha.name, ha.reuse, ha.opts, store)
      IN  IF hb.err # "" THEN CallFail(hb.err, w, hb.store, t1(hb))
          ELSE LET pre == RunPipeline(w.pre_memory, "pre", hb.out, init.ins, scope,
                                      ScopeReuse(reuse, w.reuse), hb.store)
               IN  IF pre.err # ""
                     THEN CallFail(pre.err, w, pre.store, t1(hb) \o pre.trace)
                   ELSE AfterPre(w, init.ins, state, pre, t1(hb) \o pre.trace)

\* state_size on a wrapper whose constructor had set state_shape to None
StateSizeUnset(w) == [err |-> "", value |-> w.state_shape]

\* the properties state_size and output_size: reading an attribute that no
\* step has set yet is an AttributeError
StateSize(w) ==
  IF IsNone(w.state_shape) THEN [err |-> "AttributeError", value |-> None]
  ELSE [err |-> "", value |-> w.state_shape]
OutputSize(w) ==
  IF IsNone(w.output_tmp_shape) THEN [err |-> "AttributeError", value |-> None]
  ELSE [err |-> "", value |-> w.output_tmp_shape]

\* ------------------------------------------------------- the arguments
\* Shapes are (batch, height, width, depth); every cell is built for 2 x 2
\* feature maps with a 1 x 1 filter and one output channel.
HarborShape == <<MaxBatch, 2, 2, 1>>
Base == [shape |-> <<2, 2>>, filter_size |-> <<1, 1>>, out_depth |-> 1]
NormOpts(ln) ==
  [shape |-> <<2, 2>>, filter_size |-> <<1, 1>>, out_depth |-> 1, layer_norm |-> ln,
   kernel_regularizer |-> 0, bias_regularizer |-> 0]
Flag(f) == [k \in DOMAIN Base \cup {f} |-> IF k = f THEN TRUE ELSE Base[k]]

\* memory options that lack a required key
Incomplete ==
  { [shape |-> <<2, 2>>, filter_size |-> <<1, 1>>],
    [shape |-> <<2, 2>>, out_depth |-> 1],
    [filter_size |-> <<1, 1>>, out_depth |-> 1] }

Complete(kind) ==
  IF kind \in {"Basic", "GRU"} THEN {Base}
  ELSE IF kind = "NormBasic" THEN {NormOpts(FALSE), NormOpts(TRUE)}
  ELSE IF kind = "LSTM"
    THEN {Base, Flag("state_is_tuple"), Flag("layer_norm"), Flag("use_peepholes")}
  ELSE {Base, Flag("layer_norm")}

\* the options half of the memory argument: the default None, options that
\* lack a key, complete options
MemoryChoices(kind) ==
  {None} \cup {Some(m) : m \in Incomplete} \cup {Some(m) : m \in Complete(kind)}

Relu == [fname |-> "relu", kwargs |-> None]
Reshape == [fname |-> "reshape", kwargs |-> Some([shape |-> <<1, 2, 2, MaxBatch>>])]
ComponentConv == [fname |-> "component_conv", kwargs |-> None]

PreChoices == {<<>>, <<Reshape, ComponentConv>>}
PostChoices == {<<>>, <<Relu, ComponentConv>>}
\* a pipeline argument: left at the constructor default None, or a list
PreArgs == {None} \cup {Some(p) : p \in PreChoices}
PostArgs == {None} \cup {Some(p) : p \in PostChoices}
HarborChoices == {[alloc |-> a] : a \in BOOLEAN}
InitChoices == {"zeros"}

\* the upstream feature maps: up to MaxInputs tensors of the harbor's batch size
InputTensors == {Tensor(<<MaxBatch, 2, 2, 1>>, "data")}
InputArgs ==
  {None} \cup {Some(l) : l \in UNION {[1..n -> InputTensors] : n \in 0..MaxInputs}}

Data(t) ==
  IF t.kind = "tuple" THEN StateTuple(Tensor(t.c.shape, "data"), Tensor(t.h.shape, "data"))
  ELSE Tensor(t.shape, "data")
\* states a caller passes: none, one shaped like the cell's zero state for the
\* harbor's batch size or for batch size 1, or a one-channel tensor
StateArgs(w) ==
  { None,
    Some(Data(ZeroState(w.conv_cell, MaxBatch))),
    Some(Data(ZeroState(w.conv_cell, 1))),
    Some(Tensor(<<MaxBatch, 2, 2, 1>>, "data")) }

Shapes(l) == [i \in 1..Len(l) |-> l[i].shape]
StateShape(st) == IF st.kind = "tuple" THEN <<st.c.shape, st.h.shape>> ELSE <<st.shape>>
\* the shape of the state the recurrent cell was called with in a step, None
\* when the step did not get to the cell
CellStateShape(trace) ==
  IF \E i \in 1..Len(trace) : trace[i].phase = "cell"
    THEN Some(StateShape(Get(trace[CHOOSE i \in 1..Len(trace) : trace[i].phase = "cell"].st)))
  ELSE None

\* ---------------------------------------------------- the state machine
VARIABLES
  wrapper,   \* None, or Some(the tnn_*Cell object)
  store,     \* the variable store: a set of [name, shape]
  last,      \* the last operation: its arguments, its result, the calls it made
  hist       \* history: whether step was ever called, the store after the
             \* first step call, and the first step call that returned: its
             \* input and state shapes, the store before and after it, the
             \* sizes after it
VARIABLES
  cell,      \* None, or Some(the attributes of a recurrent cell used directly)
  made,      \* None, or Some(the attributes of that cell as constructed)
  call       \* the last call on that cell or on a Linear Transform

vars == <<wrapper, store, last, hist, cell, made, call>>
node == <<wrapper, last, hist>>
direct == <<cell, made, call>>

\* a call on a cell or on a Linear Transform: its arguments, the store before
\* it, the exception or the shapes and values returned
Call(op) ==
  [op |-> op, via |-> "", bs |-> 0, x |-> NoTensor, st |-> NoTensor, reuse |-> "",
   args |-> <<>>, before |-> {}, err |-> "", out |-> NoTensor, newstate |-> NoTensor,
   outv |-> <<>>, statev |-> <<>>]

\* firstcall tells whether a step was the wrapper's first step call, prior
\* whether a step call had returned before it, reuse0 the reuse flag before it
Op(op) ==
  [op |-> op, kind |-> "", memory |-> None, inputs |-> None, state |-> None, err |-> "",
   output |-> None, newstate |-> None, trace |-> <<>>, reuse0 |-> "", firstcall |-> FALSE,
   prior |-> FALSE, value |-> None]

Init ==
  /\ wrapper = None
  /\ store = {}
  /\ last = Op("none")
  /\ hist = [stepped |-> FALSE, store1 |-> None, first |-> None]
  /\ cell = None
  /\ made = None
  /\ call = Call("none")

\* tnn_<kind>Cell(harbor_shape, harbor, pre_memory, memory, post_memory,
\*                input_init, name="node")
Construct ==
  /\ IsNone(wrapper)
  /\ \E kind \in Kinds, harbor \in HarborChoices, pre \in PreArgs,
        post \in PostArgs, input_init \in InitChoices :
       \E memory \in MemoryChoices(kind) :
         \E r \in {TnnNew(kind, HarborShape, harbor, pre, memory, post,
                          input_init, "node")} :
           /\ wrapper' = r.w
           /\ last' = [Op("construct") EXCEPT !.kind = kind, !.memory = memory,
                                              !.err = r.err]
  /\ UNCHANGED <<store, hist>>
  /\ UNCHANGED direct

\* wrapper(inputs, state)
Step ==
  /\ ~IsNone(wrapper)
  /\ \E inputs \in InputArgs, state \in StateArgs(Get(wrapper)) :
       \E w \in {Get(wrapper)} : \E r \in {TnnCall(w, inputs, state, store)} :
         /\ wrapper' = Some(r.w)
         /\ store' = r.store
         /\ last' = [Op("step") EXCEPT !.inputs = inputs, !.state = state,
                                       !.err = r.err, !.output = r.output,
                                       !.newstate = r.state, !.trace = r.trace,
                                       !.reuse0 = w.reuse,
                                       !.firstcall = ~hist.stepped,
                                       !.prior = ~IsNone(hist.first)]
         /\ hist' = [stepped |-> TRUE,
                     store1 |-> IF hist.stepped THEN hist.store1 ELSE Some(r.store),
                     first |-> IF r.err = "" /\ IsNone(hist.first)
                                 THEN Some([ins |-> Shapes(InitInputs(w, inputs).ins),
                                            st |-> CellStateShape(r.trace),
                                            before |-> store,
                                            store |-> r.store,
                                            state_size |-> r.w.state_shape,
                                            output_size |-> r.w.output_tmp_shape])
                                 ELSE hist.first]
  /\ UNCHANGED direct

\* wrapper.state_size
ReadStateSize ==
  /\ ~IsNone(wrapper)
  /\ last' = [Op("state_size") EXCEPT !.err = StateSize(Get(wrapper)).err,
                                      !.value = StateSize(Get(wrapper)).value]
  /\ UNCHANGED <<wrapper, store, hist>>
  /\ UNCHANGED direct

\* wrapper.output_size
ReadOutputSize ==
  /\ ~IsNone(wrapper)
  /\ last' = [Op("output_size") EXCEPT !.err = OutputSize(Get(wrapper)).err,
                                       !.value = OutputSize(Get(wrapper)).value]
  /\ UNCHANGED <<wrapper, store, hist>>
  /\ UNCHANGED direct

Next == Construct \/ Step \/ ReadStateSize \/ ReadOutputSize

Spec == Init /\ [][Next]_vars

\* ------------------------------------- the cells used without a wrapper
\* constructor options: Complete(kind) with one output channel and with
\* MaxDepth output channels
CellOptions(kind) ==
  {[m EXCEPT !.out_depth = d] : m \in Complete(kind), d \in {1, MaxDepth}}

\* inputs: feature maps of the cells' height and width with batch size 1 or
\* MaxBatch and depth 1 or MaxDepth, and maps of another height, of another
\* width, without channels, of rank 3
CellInputs ==
  {Tensor(<<b, 2, 2, c>>, "data") : b \in {1, MaxBatch}, c \in {1, MaxDepth}}
  \cup {Tensor(<<MaxBatch, 1, 2, 1>>, "data"), Tensor(<<MaxBatch, 2, 1, 1>>, "data"),
        Tensor(<<MaxBatch, 2, 2, 0>>, "data"), Tensor(<<2, 2, 1>>, "data")}

\* states: shaped like the cell's zero state for batch size 1 or MaxBatch, a
\* one-channel tensor, and a state of the other kind (a pair for a cell that
\* takes a tensor, a tensor for a cell that takes a pair)
CellStates(c) ==
  {Data(ZeroState(c, b)) : b \in {1, MaxBatch}}
  \cup {Tensor(<<MaxBatch, 2, 2, 1>>, "data")}
  \cup {IF c.kind = "LSTM" /\ c.state_is_tuple THEN Tensor(<<MaxBatch, 2, 2, 2>>, "data")
        ELSE StateTuple(Tensor(<<MaxBatch, 2, 2, 1>>, "data"),
                        Tensor(<<MaxBatch, 2, 2, 1>>, "data"))}

\* the variable scope a cell is called in is left at its default or set to
\* AUTO_REUSE
ScopeModes == {"None", "AUTO_REUSE"}

InputValue(x) == Channels("x", x.shape[4])
StateValue(st) ==
  IF st.kind = "tuple"
    THEN <<Channels("c", st.c.shape[4]), Channels("h", st.h.shape[4])>>
  ELSE <<Channels("state", st.shape[4])>>

\* Cell(**opts), directly or as the last line of the wrapper's constructor
\* tnn_<kind>Cell(..., memory=(memory, opts), ...).  A second instance has
\* the configuration of the first.
CellConstruct ==
  /\ \E kind \in Kinds, via \in {"cell", "wrapper"} :
       \E opts \in CellOptions(kind) :
         \E w \in {TnnNew(kind, HarborShape, [alloc |-> FALSE], Some(<<>>), Some(opts),
                          Some(<<>>), "zeros", "node")} :
           \E new \in {IF via = "cell" THEN NewCell(kind, opts) ELSE Get(w.w).conv_cell} :
             /\ IsNone(made) \/ made = Some(new)
             /\ cell' = Some(new)
             /\ made' = Some(new)
             /\ store' = RunOps(InitTrail(kind, opts), 1, store).store
             /\ call' = [Call("construct") EXCEPT !.via = via, !.before = store]
  /\ UNCHANGED node

\* cell.zero_state(bs, dtype)
CellZeroState ==
  /\ ~IsNone(cell)
  /\ \E bs \in 1..MaxBatch :
       call' = [Call("zero_state") EXCEPT !.bs = bs, !.before = store,
                                          !.newstate = ZeroState(Get(cell), bs)]
  /\ UNCHANGED <<cell, made, store>>
  /\ UNCHANGED node

\* cell(x, st) in the root variable scope
CellStep ==
  /\ ~IsNone(cell)
  /\ \E x \in CellInputs, st \in CellStates(Get(cell)), reuse \in ScopeModes :
       \E c \in {Get(cell)} :
         \E r \in {CellCall(c, <<>>, reuse, x, st, store)} :
           \E v \in {IF r.err = "" THEN CellValue(c, InputValue(x), StateValue(st))
                      ELSE [out |-> <<>>, state |-> <<>>]} :
             /\ cell' = Some(CellSelf(c, x, st))
             /\ store' = r.store
             /\ call' = [Call("step") EXCEPT
                           !.x = x, !.st = st, !.reuse = reuse, !.before = store,
                           !.err = r.err, !.out = r.out, !.newstate = r.state,
                           !.outv = v.out, !.statev = v.state]
  /\ hist' = [hist EXCEPT !.stepped = TRUE]
  /\ UNCHANGED <<made, wrapper, last>>

CellNext == CellConstruct \/ CellZeroState \/ CellStep

CellSpec == Init /\ [][CellNext]_vars

\* ------------------------------------ the Linear Transforms used directly
\* argument tensors: a one-channel map, and maps of rank 3, without channels,
\* with the depth unset, of another width
LinearTensors ==
  {Tensor(<<1, 2, 2, 1>>, "data"), Tensor(<<2, 2, 1>>, "data"),
   Tensor(<<1, 2, 2, 0>>, "data"), Tensor(<<1, 2, 2, Unset>>, "data"),
   Tensor(<<1, 2, 1, 1>>, "data")}
LinearArgs == UNION {[1..n -> LinearTensors] : n \in 0..MaxInputs}

\* _conv_linear(args, (1, 1), 1, True) in the variable scope "linear"
Linear ==
  /\ \E args \in LinearArgs, reuse \in ScopeModes :
       \E r \in {RunOps(ConvLinear(args, <<1, 1>>, 1, <<"linear">>, reuse), 1, store)} :
         /\ store' = r.store
         /\ call' = [Call("linear") EXCEPT !.args = args, !.reuse = reuse,
                                           !.before = store, !.err = r.err]
  /\ UNCHANGED <<cell, made>>
  /\ UNCHANGED node

\* _transpose_conv_linear(args, out_shape, (1, 1), 1, True) in the variable
\* scope "linear", to twice the height and width
TransposeLinear ==
  /\ \E args \in LinearArgs, reuse \in ScopeModes :
       \E r \in {RunOps(TransposeConvLinear(args, <<1, 4, 4, 1>>, <<1, 1>>, 1, <<"linear">>,
                                             reuse), 1, store)} :
         /\ store' = r.store
         /\ call' = [Call("transpose") EXCEPT !.args = args, !.reuse = reuse,
                                              !.before = store, !.err = r.err]
  /\ UNCHANGED <<cell, made>>
  /\ UNCHANGED node

LinearNext == Linear \/ TransposeLinear

LinearSpec == Init /\ [][LinearNext]_vars

\* ------------------------------------------------------------ properties
Stepped == last.op = "step"
Uninitialized(w) ==
  w.reuse = "None" /\ IsNone(w.state_shape) /\ IsNone(w.output_tmp_shape)
Initialized(w) ==
  w.reuse = "True" /\ ~IsNone(w.state_shape) /\ ~IsNone(w.output_tmp_shape)

\* C1 (amended): every parameter is allocated during the first step call that
\* completes without error, and no step call after it creates, replaces or
\* reshapes a parameter: the store was empty before that call, and after any
\* later call it is exactly the store that call left.
C1_NoReallocation ==
  ~IsNone(hist.first) =>
    /\ Get(hist.first).before = {}
    /\ store = Get(hist.first).store
\* a later step call has returned on a wrapper that owns parameters
C1_LaterStep ==
  /\ Stepped /\ last.prior /\ last.err = ""
  /\ store # {}
\* C1 as stated: the store after any step call is the store after the first
\* step call
C1_FirstCallAllocates == hist.stepped => store = Get(hist.store1)

\* C2 (amended): a wrapper is uninitialized (reuse flag unset, no shape
\* metadata) or initialized (reuse flag True, shape metadata cached); it is
\* uninitialized when constructed, becomes initialized exactly by the first
\* step that completes without error, and never becomes uninitialized again.
C2_TwoStates ==
  [][ /\ IsNone(wrapper) /\ ~IsNone(wrapper') => Uninitialized(Get(wrapper'))
      /\ ~IsNone(wrapper) =>
           /\ ~IsNone(wrapper')
           /\ Uninitialized(Get(wrapper')) \/ Initialized(Get(wrapper'))
           /\ Initialized(Get(wrapper)) => Initialized(Get(wrapper'))
           /\ Uninitialized(Get(wrapper)) =>
                (Initialized(Get(wrapper')) <=> last'.op = "step" /\ last'.err = "")
    ]_vars
\* a step that was not the wrapper's first step call has initialized it
C2_LateTransition ==
  /\ Stepped /\ ~last.firstcall /\ last.reuse0 = "None"
  /\ Initialized(Get(wrapper))
\* C2 as stated: once step has been invoked the wrapper is initialized
C2_FirstInvocation == hist.stepped => Initialized(Get(wrapper))

\* C3: reading state_size or output_size before a step call has completed
\* fails (AttributeError) and returns no shape; once a step has completed both
\* return the cached shape.
C3_SizesNotReady ==
  last.op \in {"state_size", "output_size"} =>
    IF IsNone(hist.first)
      THEN last.err = "AttributeError" /\ IsNone(last.value)
    ELSE /\ last.err = "" /\ ~IsNone(last.value)
         /\ last.op = "state_size" => last.value = Get(wrapper).state_shape
         /\ last.op = "output_size" => last.value = Get(wrapper).output_tmp_shape
\* a size was read before any step call
C3_ReadBeforeStep ==
  last.op \in {"state_size", "output_size"} /\ ~hist.stepped /\ last.err # ""


\* the calls of one phase in the last step, and the calls of the four phases
Phase(ph) == SelectSeq(last.trace, LAMBDA e : e.phase = ph)
Calls == SelectSeq(last.trace, LAMBDA e : e.phase \in {"harbor", "pre", "cell", "post"})
\* what a complete step of wrapper w calls, in order
Plan(w) ==
  LET steps(p) == IF IsNone(p) THEN <<>> ELSE Get(p)
  IN  <<[phase |-> "harbor", idx |-> 0, fname |-> "harbor"]>>
      \o [i \in 1..Len(steps(w.pre_memory)) |->
            [phase |-> "pre", idx |-> i - 1, fname |-> steps(w.pre_memory)[i].fname]]
      \o <<[phase |-> "cell", idx |-> 0, fname |-> w.kind]>>
      \o [i \in 1..Len(steps(w.post_memory)) |->
            [phase |-> "post", idx |-> i - 1, fname |-> steps(w.post_memory)[i].fname]]

\* C4: a step calls the harbor, every pre-memory step in list order, the
\* recurrent cell and every post-memory step in list order, each exactly once
\* and in this order (a step that raises stops at the call that raised), and
\* each call after the harbor receives the tensor the call before it returned.
C4_PhaseOrder ==
  Stepped =>
    /\ Len(Calls) >= 1 /\ Len(Calls) <= Len(Plan(Get(wrapper)))
    /\ \A i \in 1..Len(Calls) :
         /\ Calls[i].phase = Plan(Get(wrapper))[i].phase
         /\ Calls[i].idx = Plan(Get(wrapper))[i].idx
         /\ Calls[i].fname = Plan(Get(wrapper))[i].fname
         /\ i < Len(Calls) => Calls[i].err = ""
         /\ i > 1 => Calls[i].tin = Calls[i - 1].res
    /\ last.err = "" =>
         /\ Len(Calls) = Len(Plan(Get(wrapper)))
         /\ last.output = Calls[Len(Calls)].res
\* a step with two pre-memory and two post-memory steps has completed
C4_FullPipeline ==
  /\ Stepped /\ last.err = ""
  /\ Len(Phase("pre")) = 2 /\ Len(Phase("cell")) = 1 /\ Len(Phase("post")) = 2

\* C5 (amended): when step is called with inputs omitted (None), the wrapper
\* synthesizes exactly one tensor of the harbor shape with the configured
\* input initializer and passes the one-element list to the harbor; when a
\* list is given, empty or not, nothing is synthesized and the harbor gets the
\* list as given.
C5_SynthesizedInput ==
  Stepped =>
    /\ Len(Phase("harbor")) = 1
    /\ IF IsNone(last.inputs)
         THEN /\ Len(Phase("input_init")) = 1
              /\ Phase("input_init")[1].res
                   = Some(Tensor(Get(wrapper).harbor_shape, Get(wrapper).input_init))
              /\ Phase("harbor")[1].raw
                   = Some(<<Tensor(Get(wrapper).harbor_shape, Get(wrapper).input_init)>>)
       ELSE /\ Phase("input_init") = <<>>
            /\ Phase("harbor")[1].raw = last.inputs
\* a step called without inputs has completed
C5_InputsOmitted == Stepped /\ IsNone(last.inputs) /\ last.err = ""
\* C5 as stated: with inputs omitted or an empty list, one input is
\* synthesized and the harbor gets a one-element list
C5_EmptyListSynthesized ==
  Stepped /\ (IsNone(last.inputs) \/ last.inputs = Some(<<>>)) =>
    /\ Len(Phase("input_init")) = 1
    /\ Len(Get(Phase("harbor")[1].raw)) = 1

\* C6 (amended): when step is called with state omitted, the state comes from
\* the cell's zero_state with batch size equal to the leading dimension of the
\* tensor handed to the cell, that is the output of the pre-memory pipeline
\* (the harbor output only when that pipeline keeps the leading dimension);
\* when a state is supplied, zero_state is not called and the cell gets the
\* supplied state unchanged.
C6_ZeroState ==
  Stepped =>
    /\ Phase("cell") = <<>> => Phase("zero_state") = <<>>
    /\ Phase("cell") # <<>> =>
         IF IsNone(last.state)
           THEN /\ Len(Phase("zero_state")) = 1
                /\ Phase("zero_state")[1].idx = Get(Phase("cell")[1].tin).shape[1]
                /\ Phase("zero_state")[1].rst
                     = Some(ZeroState(Get(wrapper).conv_cell,
                                      Get(Phase("cell")[1].tin).shape[1]))
                /\ Phase("cell")[1].st = Phase("zero_state")[1].rst
         ELSE /\ Phase("zero_state") = <<>>
              /\ Phase("cell")[1].st = last.state
\* a step without state has completed behind a pre-memory pipeline that
\* changed the leading dimension
C6_StateOmitted ==
  /\ Stepped /\ IsNone(last.state) /\ last.err = ""
  /\ Get(Phase("cell")[1].tin).shape[1] # Get(Phase("harbor")[1].res).shape[1]
\* C6 as stated: the batch size given to zero_state is the leading dimension
\* of the harbor output
C6_HarborBatch ==
  Stepped /\ IsNone(last.state) /\ Phase("zero_state") # <<>> =>
    Phase("zero_state")[1].idx = Get(Phase("harbor")[1].res).shape[1]

\* the last step had the input shapes of the first step that completed, and
\* its cell was called with a state of the same shape
SameShapes ==
  /\ Shapes(Get(Phase("harbor")[1].raw)) = Get(hist.first).ins
  /\ CellStateShape(last.trace) = Get(hist.first).st

\* C7: after the first step that completed, a further step call with
\* same-shaped inputs and same-shaped state completes and leaves state_size
\* and output_size at the values they had after that first step.
C7_IdempotentShape ==
  Stepped /\ last.prior /\ SameShapes =>
    /\ last.err = ""
    /\ StateSize(Get(wrapper)).value = Get(hist.first).state_size
    /\ OutputSize(Get(wrapper)).value = Get(hist.first).output_size
\* a further step with the first step's shapes has returned, on a wrapper
\* with parameters in the harbor and in both pipelines
C7_SameShapesAgain ==
  /\ Stepped /\ last.prior /\ SameShapes
  /\ Get(wrapper).harbor.alloc /\ Len(Phase("pre")) = 2 /\ Len(Phase("post")) = 2

\* the pipeline steps the last step called, and the steps configured for them
PipelineCalls == Phase("pre") \o Phase("post")
Configured(e) ==
  IF e.phase = "pre" THEN Get(Get(wrapper).pre_memory)[e.idx + 1]
  ELSE Get(Get(wrapper).post_memory)[e.idx + 1]

\* C8: a pre-memory or post-memory step is handed the raw inputs list next to
\* the running tensor if and only if its function name is "component_conv";
\* every other step gets the running tensor and its keyword options only; the
\* raw list is the list the harbor was given in the same call.
C8_RawInputs ==
  Stepped =>
    \A i \in 1..Len(PipelineCalls) :
      LET e == PipelineCalls[i]
      IN  /\ ~IsNone(e.tin)
          /\ e.fname = Configured(e).fname /\ e.opts = Configured(e).kwargs
          /\ ~IsNone(e.raw) <=> e.fname = "component_conv"
          /\ ~IsNone(e.raw) => e.raw = Phase("harbor")[1].raw
\* a step called without inputs has run component_conv and another step in
\* both pipelines
C8_BothKinds ==
  /\ Stepped /\ IsNone(last.inputs) /\ last.err = ""
  /\ Len(Phase("pre")) = 2 /\ Len(Phase("post")) = 2
  /\ \E i \in 1..Len(PipelineCalls) : ~IsNone(PipelineCalls[i].raw)
  /\ \E i \in 1..Len(PipelineCalls) : IsNone(PipelineCalls[i].raw)

\* C9 (amended): every step call invokes the harbor exactly once, with the
\* full input list, the harbor shape, the node's name, the wrapper's current
\* reuse flag and the harbor options; the flag is unset until a step call has
\* completed and True on every call after that.
C9_HarborCall ==
  Stepped =>
    /\ Len(Phase("harbor")) = 1
    /\ Phase("harbor")[1].raw
         = IF IsNone(last.inputs)
             THEN Some(<<Tensor(Get(wrapper).harbor_shape, Get(wrapper).input_init)>>)
           ELSE last.inputs
    /\ Phase("harbor")[1].shape = Some(Get(wrapper).harbor_shape)
    /\ Phase("harbor")[1].name = Get(wrapper).name_tmp
    /\ Phase("harbor")[1].opts = Some(Get(wrapper).harbor)
    /\ Phase("harbor")[1].reuse = last.reuse0
    /\ last.reuse0 = IF last.prior THEN "True" ELSE "None"
\* a step called with MaxInputs inputs after a step that had completed
C9_LaterCall ==
  /\ Stepped /\ last.prior /\ last.err = ""
  /\ ~IsNone(last.inputs) /\ Len(Get(last.inputs)) = MaxInputs
\* C9 as stated: the flag passed is unset on the first step call and True on
\* every later one
C9_TrueAfterFirstCall ==
  Stepped => Phase("harbor")[1].reuse = IF last.firstcall THEN "None" ELSE "True"

\* C10: constructing a wrapper whose memory options lack shape, filter_size
\* or out_depth, or are left at the default, raises (TypeError or KeyError)
\* and creates no wrapper and no parameter.
C10_MissingKey ==
  /\ last.op = "construct"
  /\ IsNone(last.memory) \/ ~(RequiredKeys \subseteq DOMAIN Get(last.memory))
  =>
  /\ last.err \in {"TypeError", "KeyError"}
  /\ IsNone(wrapper)
  /\ store = {}
\* a constructor was called with memory options that lack a key
C10_KeyOmitted ==
  /\ last.op = "construct" /\ ~IsNone(last.memory)
  /\ ~(RequiredKeys \subseteq DOMAIN Get(last.memory))
  /\ last.err # ""

\* C11: a ShapeError (ValueError) raised during a step by the harbor, by a
\* pipeline step or by the recurrent cell is the error the step call ends
\* with: the call that raised is the last call the step made, no phase runs
\* after it, and the step returns neither an output nor a state.
C11_ErrorPropagates ==
  Stepped =>
    \A i \in 1..Len(last.trace) :
      last.trace[i].err = "ValueError" =>
        /\ last.trace[i].phase \in {"harbor", "pre", "cell", "post"}
        /\ i = Len(last.trace)
        /\ last.err = "ValueError"
        /\ IsNone(last.output) /\ IsNone(last.newstate)
\* a post-memory step has raised a ShapeError after the harbor, the pre-memory
\* pipeline and the cell had returned
C11_PostStepRaised ==
  /\ Stepped /\ last.err = "ValueError"
  /\ Len(Phase("cell")) = 1 /\ Phase("cell")[1].err = ""
  /\ Len(Phase("post")) >= 1 /\ Phase("post")[Len(Phase("post"))].err = "ValueError"

\* ------------------------------------------- properties of the cells
CellStepped == call.op = "step"
Returned == call.op = "step" /\ call.err = ""
\* the last step's input has the cell's height and width and batch size b, and
\* its state is shaped like zero_state(b)
WellShaped(b) ==
  /\ Len(call.x.shape) = 4
  /\ SubSeq(call.x.shape, 1, 3) = <<b, Get(cell).shape[1], Get(cell).shape[2]>>
  /\ call.x.shape[4] > 0
  /\ call.st.kind = ZeroState(Get(cell), b).kind
  /\ StateShape(call.st) = StateShape(ZeroState(Get(cell), b))

\* C12: for every cell variant and batch size B, zero_state(B) is all zeros
\* and has the declared shape: (B, H, W, out_depth); for the LSTM a pair of
\* two such tensors with state_is_tuple and one (B, H, W, 2 * out_depth) tensor
\* without; the dimensions after the batch are the cell's state_size.
C12_ZeroStateShape ==
  call.op = "zero_state" =>
    LET c == Get(cell)
        z == call.newstate
        full(d) == Tensor(<<call.bs, c.shape[1], c.shape[2], d>>, "zeros")
    IN  /\ IF c.kind = "LSTM" /\ c.state_is_tuple
             THEN z = StateTuple(full(c.out_depth), full(c.out_depth))
           ELSE IF c.kind = "LSTM" THEN z = full(2 * c.out_depth)
           ELSE z = full(c.out_depth)
        /\ Len(StateShape(z)) = Len(CellStateSize(c))
        /\ \A i \in 1..Len(StateShape(z)) :
             /\ StateShape(z)[i][1] = call.bs
             /\ Tail(StateShape(z)[i]) = CellStateSize(c)[i]
\* zero_state(MaxBatch) of an LSTM cell with a concatenated state and MaxDepth
\* output channels
C12_ConcatZeroState ==
  /\ call.op = "zero_state" /\ call.bs = MaxBatch
  /\ Get(cell).kind = "LSTM" /\ ~Get(cell).state_is_tuple
  /\ Get(cell).out_depth = MaxDepth

\* C13 (amended): for a step that returns, called with an input of shape
\* (B, H, W, C) and a state shaped like zero_state(B): for every variant but
\* the LSTM the output and the new state have the shape of zero_state(B); for
\* the LSTM with a concatenated state the new state has the shape of
\* zero_state(B), (B, H, W, 2 * out_depth), and the output, new_h, has the
\* shape (B, H, W, out_depth).
C13_StepShapes ==
  \A b \in 1..MaxBatch :
    Returned /\ WellShaped(b) =>
      LET c == Get(cell)
          zero == StateShape(ZeroState(c, b))
      IN  /\ c.kind # "LSTM" =>
               /\ <<call.out.shape>> = zero
               /\ StateShape(call.newstate) = zero
          /\ c.kind = "LSTM" /\ ~c.state_is_tuple =>
               /\ call.newstate.kind = "tensor"
               /\ StateShape(call.newstate) = zero
               /\ call.out.shape = <<b, c.shape[1], c.shape[2], c.out_depth>>
\* an LSTM cell with a concatenated state and MaxDepth output channels has
\* returned from a step with batch size MaxBatch
C13_ConcatStep ==
  /\ Returned /\ WellShaped(MaxBatch)
  /\ Get(cell).kind = "LSTM" /\ ~Get(cell).state_is_tuple
  /\ Get(cell).out_depth = MaxDepth
\* C13 as stated: for every variant except the LSTM with state_is_tuple the
\* output and the new state have the shape of zero_state
C13_SameAsZeroState ==
  \A b \in 1..MaxBatch :
    /\ Returned /\ WellShaped(b)
    /\ ~(Get(cell).kind = "LSTM" /\ Get(cell).state_is_tuple)
    => /\ <<call.out.shape>> = StateShape(ZeroState(Get(cell), b))
       /\ StateShape(call.newstate) = StateShape(ZeroState(Get(cell), b))

\* C14: an IntersectionRNN step whose 4-dimensional input differs from the
\* configured height, width or out_depth raises a ShapeError (ValueError)
\* before any parameter is allocated: the store is as it was before the call.
C14_IntersectionShape ==
  /\ CellStepped /\ Get(cell).kind = "IntersectionRNN"
  /\ Len(call.x.shape) = 4
  /\ \/ call.x.shape[2] # Get(cell).shape[1]
     \/ call.x.shape[3] # Get(cell).shape[2]
     \/ call.x.shape[4] # Get(cell).out_depth
  => /\ call.err = "ValueError"
     /\ store = call.before
\* an IntersectionRNN step was given an input that differs in the depth only,
\* in a scope mode that lets it allocate
C14_DepthMismatch ==
  /\ CellStepped /\ Get(cell).kind = "IntersectionRNN"
  /\ Len(call.x.shape) = 4
  /\ call.x.shape[2] = Get(cell).shape[1] /\ call.x.shape[3] = Get(cell).shape[2]
  /\ call.x.shape[4] # Get(cell).out_depth /\ call.x.shape[4] > 0
  /\ call.st = Data(ZeroState(Get(cell), call.x.shape[1]))
  /\ call.reuse = "AUTO_REUSE" /\ call.before = {}
\* the last call was a Linear Transform or a Transpose Linear Transform
LinearCalled == call.op \in {"linear", "transpose"}
\* argument i of the last call is not 4-dimensional or has no channels
Rejected(i) ==
  \/ Len(call.args[i].shape) # 4
  \/ call.args[i].shape[4] = 0
  \/ call.args[i].shape[4] = Unset

\* C15: the Linear Transform and the Transpose Linear Transform raise a
\* ShapeError (ValueError) when any tensor of the input list is not
\* 4-dimensional or has an unset or zero channel dimension, and they do so
\* before the kernel or the bias is allocated or looked up: the store is as
\* it was before the call.
C15_LinearValidation ==
  LinearCalled /\ (\E i \in 1..Len(call.args) : Rejected(i)) =>
    /\ call.err = "ValueError"
    /\ store = call.before
\* a Transpose Linear Transform was called with MaxInputs arguments of which
\* only the last is rejected, in a scope mode that lets it allocate
C15_LastArgumentRejected ==
  /\ call.op = "transpose" /\ Len(call.args) = MaxInputs
  /\ Rejected(MaxInputs) /\ \A i \in 1..(MaxInputs - 1) : ~Rejected(i)
  /\ call.reuse = "AUTO_REUSE" /\ call.before = {}
\* C16 (amended): constructing a recurrent cell or a node wrapper never
\* allocates a parameter: the store is the same before and after any
\* constructor; parameters appear only during step calls, so the store is
\* empty until a step call is made, and they appear in the first step call
\* that gets as far as allocating them, which need not be the first.
C16_LazyParameters ==
  [][ /\ call'.op = "construct" => store' = store
      /\ store' # store => call'.op = "step"
      /\ ~hist'.stepped => store' = {}
    ]_vars
\* a second instance was constructed through the wrapper's constructor after a
\* step of the first had allocated parameters
C16_ConstructedLater ==
  /\ call.op = "construct" /\ call.via = "wrapper"
  /\ hist.stepped /\ call.before # {}
\* C16 as stated: no constructor changes the store, and the parameters first
\* appear during the cell's first step call
C16_FirstStepAllocates ==
  [][ /\ call'.op = "construct" => store' = store
      /\ store' # store => call'.op = "step" /\ ~hist.stepped
    ]_vars

\* C17: a cell's step leaves every attribute of the cell instance as the
\* constructor set it, and what it returns (the exception, or the shapes and
\* values of output and new state) is a function of the constructor's
\* attributes, the input, the state passed in and the parameters in the store
\* before the call, whatever calls were made before.
C17_Stateless ==
  ~IsNone(cell) =>
    /\ cell = made
    /\ CellStepped =>
         LET r == CellCall(Get(made), <<>>, call.reuse, call.x, call.st, call.before)
         IN  /\ call.err = r.err /\ call.out = r.out /\ call.newstate = r.state
             /\ store = r.store
             /\ call.err = "" =>
                  /\ call.outv
                       = CellValue(Get(made), InputValue(call.x), StateValue(call.st)).out
                  /\ call.statev
                       = CellValue(Get(made), InputValue(call.x), StateValue(call.st)).state
\* a step has returned on a cell whose parameters an earlier step had
\* allocated
C17_SteppedAgain ==
  /\ Returned /\ call.before # {}
  /\ store = call.before
RECURSIVE Reads(_)
\* the Linear Transform output channels (scope, channel) a term is computed from
Reads(t) ==
  (IF t.op = "linear" THEN {<<t.name, t.k>>} ELSE {})
  \cup UNION {Reads(t.args[i]) : i \in 1..Len(t.args)}
\* slice m of the output of the Linear Transform of scope `name`, cut into
\* slices of d channels; channel k of that slice
Slice(name, m, d) == {<<name, k>> : k \in ((m - 1) * d + 1)..(m * d)}
SliceChannel(name, m, d, k) == {<<name, (m - 1) * d + k>>}
\* a gate made of the channels S only, and its complement 1 - gate
IsGate(g, S) == g.op = "sigmoid" /\ Reads(g) # {} /\ Reads(g) \subseteq S
IsComplement(g, S) ==
  /\ g.op = "sub" /\ g.args[1] = Scalar("1")[1]
  /\ IsGate(g.args[2], S)
IsCarry(t) == t.op = "in" /\ t.name \in {<<"state">>, <<"c">>}
RECURSIVE ViaGate(_, _)
\* the channels S reach term t only as a gate that multiplies the previous
\* state, or as that gate's complement multiplying a value that does not read
\* S; in particular not through a Linear Transform fed with them
ViaGate(t, S) ==
  IF Reads(t) \cap S = {} THEN TRUE
  ELSE IF /\ t.op = "mul"
          /\ \E i \in 1..2 :
               \/ IsGate(t.args[i], S) /\ IsCarry(t.args[3 - i])
               \/ IsComplement(t.args[i], S) /\ Reads(t.args[3 - i]) \cap S = {}
    THEN TRUE
  ELSE IF t.op = "linear" THEN FALSE
  ELSE \A i \in 1..Len(t.args) : ViaGate(t.args[i], S)

\* the parts of g * state + (1 - g) * c in channel k of a new state
GatedMix(t, gate, cand) ==
  /\ t.op = "add" /\ t.args[1].op = "mul" /\ t.args[2].op = "mul"
  /\ t.args[1].args[1] = gate /\ IsCarry(t.args[1].args[2])
  /\ t.args[2].args = <<Sub(Scalar("1"), <<gate>>)[1], cand>>

\* GRU: r, u are slices 1, 2 of the "gates" transform; u gates the state, r
\* enters the candidate
GRUOrder(c, new) ==
  LET D == c.out_depth
      gates == <<"ConvGRUCell", "gates">>
  IN  \A k \in 1..D :
        LET u == new[k].args[1].args[1]
            cand == new[k].args[2].args[2]
        IN  /\ GatedMix(new[k], u, cand)
            /\ u.op = "sigmoid" /\ Reads(u) = SliceChannel(gates, 2, D, k)
            /\ Reads(cand) = {<<<<"ConvGRUCell", "candidates">>, k>>} \cup Slice(gates, 1, D)
\* UGRNN: g_act, c_act are slices 1, 2
UGRNNOrder(c, new) ==
  LET D == c.out_depth
  IN  \A k \in 1..D :
        LET g == new[k].args[1].args[1]
            cand == new[k].args[2].args[2]
        IN  /\ GatedMix(new[k], g, cand)
            /\ g.op = "sigmoid" /\ Reads(g) = SliceChannel(<<"ConvUGRNNCell">>, 1, D, k)
            /\ cand.op = "tanh" /\ Reads(cand) = SliceChannel(<<"ConvUGRNNCell">>, 2, D, k)
\* LSTM: i, j, f, o are slices 1, 2, 3, 4; with layer_norm a gate reads its
\* whole slice and new_c is the normalized sum
LSTMOrder(c, new_c, new_h) ==
  LET D == c.out_depth
      sl(m, k) == IF c.layer_norm THEN Slice(<<"ConvLSTMCell">>, m, D)
                  ELSE SliceChannel(<<"ConvLSTMCell">>, m, D, k)
  IN  \A k \in 1..D :
        LET sum == IF c.layer_norm THEN new_c[k].args[k] ELSE new_c[k]
        IN  /\ sum.op = "add" /\ sum.args[1].op = "mul" /\ sum.args[2].op = "mul"
            /\ IsCarry(sum.args[1].args[1])
            /\ IsGate(sum.args[1].args[2], sl(3, k))
            /\ Reads(sum.args[1].args[2]) = sl(3, k)
            /\ sum.args[2].args[1].op = "sigmoid" /\ Reads(sum.args[2].args[1]) = sl(1, k)
            /\ sum.args[2].args[2].op = "activation"
            /\ Reads(sum.args[2].args[2]) = sl(2, k)
            /\ new_h[k].op = "mul" /\ new_h[k].args[1].args = <<new_c[k]>>
            /\ new_h[k].args[2].op = "sigmoid" /\ Reads(new_h[k].args[2]) = sl(4, k)

\* the update / forget gate's slice of the Linear Transform output
GateSlice(c) ==
  IF c.kind = "GRU" THEN Slice(<<"ConvGRUCell", "gates">>, 2, c.out_depth)
  ELSE IF c.kind = "UGRNN" THEN Slice(<<"ConvUGRNNCell">>, 1, c.out_depth)
  ELSE Slice(<<"ConvLSTMCell">>, 3, c.out_depth)
\* c and h of the new state of an LSTM step
NewC(c) == IF c.state_is_tuple THEN call.statev[1] ELSE SubSeq(call.statev[1], 1, c.out_depth)
NewH(c) ==
  IF c.state_is_tuple THEN call.statev[2]
  ELSE SubSeq(call.statev[1], c.out_depth + 1, 2 * c.out_depth)

\* C18: the Linear Transform output is cut into equal consecutive slices of
\* out_depth channels assigned in order to (r, u) for the GRU, (gate,
\* candidate) for the UGRNN and (i, j, f, o) for the LSTM; every channel of the
\* new state reads the update / forget gate's slice, and only as the gate
\* that multiplies the previous state or as its complement, never through the
\* candidate / new-input value.
C18_GateOrder ==
  Returned /\ Get(cell).kind \in {"GRU", "UGRNN", "LSTM"} =>
    LET c == Get(cell)
    IN  /\ IF c.kind = "GRU" THEN GRUOrder(c, call.statev[1])
           ELSE IF c.kind = "UGRNN" THEN UGRNNOrder(c, call.statev[1])
           ELSE LSTMOrder(c, NewC(c), NewH(c))
        /\ \A p \in 1..Len(call.statev) : \A k \in 1..Len(call.statev[p]) :
             /\ Reads(call.statev[p][k]) \cap GateSlice(c) # {}
             /\ ViaGate(call.statev[p][k], GateSlice(c))
\* a GRU cell with MaxDepth output channels has returned from a step
C18_GRUStep == Returned /\ Get(cell).kind = "GRU" /\ Get(cell).out_depth = MaxDepth
RECURSIVE LinearInputs(_)
\* the argument lists of the Linear Transforms a term is computed from
LinearInputs(t) ==
  IF t.op = "linear" THEN {t.args}
  ELSE UNION {LinearInputs(t.args[i]) : i \in 1..Len(t.args)}
\* the previous c and h an LSTM step has to read, by the claim: the pair's
\* members, or the first and the last out_depth channels of the tensor
PrevC(c) ==
  IF c.state_is_tuple THEN Channels("c", call.st.c.shape[4])
  ELSE SubSeq(Channels("state", call.st.shape[4]), 1, c.out_depth)
PrevH(c) ==
  IF c.state_is_tuple THEN Channels("h", call.st.h.shape[4])
  ELSE SubSeq(Channels("state", call.st.shape[4]), c.out_depth + 1, 2 * c.out_depth)
\* channel k of a value that broadcasts when it has one channel
Broadcast(v, k) == v[IF Len(v) = 1 THEN 1 ELSE k]

\* C19: an LSTM cell built with state_is_tuple takes and returns a (c, h)
\* pair; one built without it reads c from the first out_depth channels and h
\* from the last out_depth channels of the incoming tensor and returns one
\* tensor whose first out_depth channels are new_c and whose last out_depth
\* channels are new_h; in both modes the output is new_h.
C19_LSTMState ==
  Returned /\ Get(cell).kind = "LSTM" =>
    LET c == Get(cell)
        D == c.out_depth
        new_c == NewC(c)
        new_h == NewH(c)
    IN  /\ (call.st.kind = "tuple") = c.state_is_tuple
        /\ (call.newstate.kind = "tuple") = c.state_is_tuple
        /\ Len(call.statev) = (IF c.state_is_tuple THEN 2 ELSE 1)
        /\ ~c.state_is_tuple =>
             /\ call.st.shape[4] = 2 * D /\ call.newstate.shape[4] = 2 * D
             /\ call.statev[1] = new_c \o new_h
        /\ Len(new_c) = D /\ Len(new_h) = D
        /\ call.outv = new_h
        /\ \A k \in 1..D :
             LET sum == IF c.layer_norm THEN new_c[k].args[k] ELSE new_c[k]
             IN  /\ new_h[k].op = "mul" /\ new_h[k].args[1].op = "activation"
                 /\ new_h[k].args[1].args = <<new_c[k]>>
                 /\ sum.args[1].args[1] = Broadcast(PrevC(c), k)
                 /\ LinearInputs(new_h[k]) = {InputValue(call.x) \o PrevH(c)}
\* an LSTM cell with a concatenated state of 2 * MaxDepth channels has
\* returned from a step
C19_ConcatLSTMStep ==
  /\ Returned /\ Get(cell).kind = "LSTM" /\ ~Get(cell).state_is_tuple
  /\ Get(cell).out_depth = MaxDepth
\* C20: the Intersection-RNN's Linear Transform output of 4 * out_depth
\* channels is split in the order (gh, h, gy, y), each read by channel or,
\* with layer_norm, as a whole slice; the new state is
\* gh * state + (1 - gh) * h and the output is gy * input + (1 - gy) * y: the
\* output's carry is an input channel and the new state's carry is a state
\* channel.
C20_IntersectionPaths ==
  Returned /\ Get(cell).kind = "IntersectionRNN" =>
    LET D == Get(cell).out_depth
        sl(m, k) == IF Get(cell).layer_norm THEN Slice(<<"ConvIntersectionRNNCell">>, m, D)
                    ELSE SliceChannel(<<"ConvIntersectionRNNCell">>, m, D, k)
        new == call.statev[1]
        out == call.outv
    IN  /\ Len(call.statev) = 1 /\ Len(new) = D /\ Len(out) = D
        /\ \A k \in 1..D :
             LET gh == new[k].args[1].args[1]
                 h == new[k].args[2].args[2]
                 gy == out[k].args[1].args[1]
                 y == out[k].args[2].args[2]
             IN  /\ LinearInputs(new[k]) = {InputValue(call.x) \o StateValue(call.st)[1]}
                 /\ LinearInputs(out[k]) = LinearInputs(new[k])
                 /\ GatedMix(new[k], gh, h)
                 /\ new[k].args[1].args[2] = Broadcast(StateValue(call.st)[1], k)
                 /\ gh.op = "sigmoid" /\ Reads(gh) = sl(1, k)
                 /\ h.op = "tanh" /\ Reads(h) = sl(2, k)
                 /\ out[k].op = "add" /\ out[k].args[1].op = "mul" /\ out[k].args[2].op = "mul"
                 /\ out[k].args[1].args = <<gy, Broadcast(InputValue(call.x), k)>>
                 /\ out[k].args[2].args = <<Sub(Scalar("1"), <<gy>>)[1], y>>
                 /\ gy.op = "sigmoid" /\ Reads(gy) = sl(3, k)
                 /\ y.op = "relu" /\ Reads(y) = sl(4, k)
\* an Intersection-RNN cell with MaxDepth output channels has returned from a
\* step
C20_IntersectionStep ==
  Returned /\ Get(cell).kind = "IntersectionRNN" /\ Get(cell).out_depth = MaxDepth
\* ------------------------------------- properties of failing steps
\* the parameters of the store owned by the recurrent cell: those outside the
\* harbor's and the pipeline steps' scopes
CellParameters(st) ==
  {v \in st : v.name[2] \notin {"harbor", "pre_0", "pre_1", "post_0", "post_1"}}

\* C21: a step call on a wrapper that no step has completed on (its first
\* step call in particular) that fails in the harbor, a pipeline step or the
\* recurrent cell leaves the wrapper uninitialized: the reuse flag is unset
\* and state_size / output_size fail, while the store keeps every parameter
\* it had and those the calls before the failure allocated; and a step sets
\* the flag and caches the shapes only when it has run every phase.
C21_FailedStepUninitialized ==
  [][ last'.op = "step" /\ last'.reuse0 = "None" =>
        /\ last'.err # "" =>
             /\ Uninitialized(Get(wrapper'))
             /\ StateSize(Get(wrapper')).err = "AttributeError"
             /\ OutputSize(Get(wrapper')).err = "AttributeError"
             /\ store \subseteq store'
             /\ \A i \in 1..Len(last'.trace) :
                  LET e == last'.trace[i]
                  IN  /\ e.phase = "harbor" /\ e.err = "" /\ Get(e.opts).alloc =>
                           \E v \in store' : v.name = <<Get(wrapper').name_tmp, "harbor", "weights">>
                      /\ e.phase = "cell" /\ e.err = "" => CellParameters(store') # {}
        /\ ~Uninitialized(Get(wrapper')) =>
             /\ last'.err = "" /\ Initialized(Get(wrapper'))
             /\ Len(SelectSeq(last'.trace,
                              LAMBDA e : e.phase \in {"harbor", "pre", "cell", "post"}))
                  = Len(Plan(Get(wrapper')))
    ]_vars
\* a wrapper's first step call has failed after the recurrent cell had
\* returned, with parameters of the harbor and of the cell in the store
C21_FirstStepFailedLate ==
  /\ Stepped /\ last.firstcall /\ last.err # ""
  /\ Len(Phase("cell")) = 1 /\ Phase("cell")[1].err = ""
  /\ Get(wrapper).harbor.alloc /\ CellParameters(store) # {}
  /\ Uninitialized(Get(wrapper))
\* C22: the state a completed wrapper step returns is the new state the
\* recurrent cell returned in that call, whatever the post-memory pipeline
\* does: the post-memory steps are chained from the cell's output, none of
\* them is given or returns a state, and the output returned is the result of
\* the last of them, or the cell's output when the list is empty.
C22_PostMemoryKeepsState ==
  Stepped /\ last.err = "" =>
    LET post == Phase("post")
    IN  /\ Len(Phase("cell")) = 1
        /\ ~IsNone(last.newstate) /\ last.newstate = Phase("cell")[1].rst
        /\ ~IsNone(last.output)
        /\ last.output = IF post = <<>> THEN Phase("cell")[1].res ELSE post[Len(post)].res
        /\ Len(post) = Len(Get(Get(wrapper).post_memory))
        /\ \A i \in 1..Len(post) :
             /\ IsNone(post[i].st) /\ IsNone(post[i].rst)
             /\ post[i].tin = IF i = 1 THEN Phase("cell")[1].res ELSE post[i - 1].res
\* a step of a wrapper around an LSTM cell with a (c, h) state has completed
\* with two post-memory steps
C22_TupleStateKept ==
  /\ Stepped /\ last.err = "" /\ Len(Phase("post")) = 2
  /\ Get(last.newstate).kind = "tuple"
\* the shape of a state: of the tensor, or of c and of h for a (c, h) pair
SizeOf(st) == IF st.kind = "tuple" THEN <<st.c.shape, st.h.shape>> ELSE st.shape

\* C23: after any sequence of step calls on a wrapper, output_size is the
\* shape of the output the most recent completed step returned and state_size
\* the shape of the state it returned: a step that completes rewrites both,
\* and a step that fails (or a read) leaves both as they were.
C23_SizesTrackLastStep ==
  [][ ~IsNone(wrapper) =>
        IF last'.op = "step" /\ last'.err = ""
          THEN /\ OutputSize(Get(wrapper')).value = Some(Get(last'.output).shape)
               /\ StateSize(Get(wrapper')).value = Some(SizeOf(Get(last'.newstate)))
        ELSE /\ Get(wrapper').output_tmp_shape = Get(wrapper).output_tmp_shape
             /\ Get(wrapper').state_shape = Get(wrapper).state_shape
    ]_vars
\* the calls of one phase in a trace
PhaseOf(trace, ph) == SelectSeq(trace, LAMBDA e : e.phase = ph)
Ran(trace, ph) == PhaseOf(trace, ph) # <<>> /\ PhaseOf(trace, ph)[1].err = ""

UGRNNLinearAllocated(st, w) ==
  /\ \E v \in st : v.name = <<w.name_tmp, "ConvUGRNNCell", "weights">>
  /\ \E v \in st : v.name = <<w.name_tmp, "ConvUGRNNCell", "bias">>

\* C25 (amended): with layer_norm enabled, every ConvUGRNNCell step fails
\* before any (output, new_state) is returned: it fails on the undefined name
\* (NameError), with the Linear Transform's kernel and bias allocated,
\* whenever that transform returns, as it does when the cell has no
\* parameters yet, the input is a (B, H, W, C) feature map of the cell's
\* height and width and the state has the shape of zero_state(B);
\* otherwise it fails inside the transform (ValueError for a tensor state
\* that does not fit the input or for parameters that exist already while the
\* reuse flag is unset); so a tnn_ConvUGRNNCell configured with layer_norm
\* never becomes initialized.  With layer_norm disabled a step that returns
\* has output = new_state.
C25_UGRNNLayerNorm ==
  [][ ~IsNone(wrapper') /\ Get(wrapper').kind = "UGRNN" =>
        LET w == Get(wrapper')
            cc == PhaseOf(last'.trace, "cell")
        IN  IF w.conv_cell.layer_norm
              THEN /\ Uninitialized(w)
                   /\ last'.op = "step" =>
                        /\ last'.err # "" /\ IsNone(last'.output) /\ IsNone(last'.newstate)
                        /\ PhaseOf(last'.trace, "post") = <<>>
                        /\ cc # <<>> =>
                             /\ Len(cc) = 1 /\ IsNone(cc[1].res) /\ IsNone(cc[1].rst)
                             /\ cc[1].err \in {"NameError", "ValueError"}
                             /\ last'.err = cc[1].err
                             /\ cc[1].err = "NameError" => UGRNNLinearAllocated(store', w)
                             /\ /\ CellParameters(store) = {}
                                /\ Get(cc[1].st) = ZeroState(w.conv_cell, Get(cc[1].tin).shape[1])
                                   \/ Get(cc[1].st).shape = Get(cc[1].tin).shape
                                => cc[1].err = "NameError"
            ELSE last'.op = "step" /\ cc # <<>> /\ cc[1].err = "" =>
                   /\ ~IsNone(cc[1].res) /\ cc[1].res = cc[1].rst
    ]_vars
\* a step of a UGRNN wrapper with layer_norm has failed on the undefined name
\* with the kernel and the bias allocated
C25_NameErrorAfterAllocation ==
  /\ Stepped /\ Get(wrapper).kind = "UGRNN" /\ Get(wrapper).conv_cell.layer_norm
  /\ last.err = "NameError" /\ UGRNNLinearAllocated(store, Get(wrapper))
\* C25 as stated: with layer_norm every UGRNN step fails on the undefined
\* name after the kernel and the bias have been allocated
C25_EveryStepNameError ==
  /\ Stepped /\ Get(wrapper).kind = "UGRNN" /\ Get(wrapper).conv_cell.layer_norm
  /\ Phase("cell") # <<>>
  =>
  /\ Phase("cell")[1].err = "NameError"
  /\ UGRNNLinearAllocated(store, Get(wrapper))

====
